---- MODULE Spec2Model ----
(***************************************************************************)
(* BriarBot: the request-handling core of src/src/briar-bot.js and         *)
(* src/src/cache-manager.js.                                               *)
(*                                                                         *)
(*   SpecDedup     getHeroWithDeduplication, its timeout timers,           *)
(*                 cleanupExpiredRequests and the persistent cache the     *)
(*                 shared computation reads and writes, over a clock.      *)
(*   SpecDedupTimely  SpecDedup where every computation settles in less    *)
(*                 than REQUEST_TIMEOUT.                                   *)
(*   SpecQueue     the command queue: the messageCreate handler from the   *)
(*                 'already processing' check on, addToQueue, processQueue *)
(*                 and processCommand.                                     *)
(*   FairSpecQueue SpecQueue from a smaller workload, with the fairness    *)
(*                 the event loop gives timers and finishing commands.     *)
(*   SpecLimiter   the RateLimiter of src/unnamed/part_007 under any       *)
(*                 sequence of recorded outcomes, and the admission check  *)
(*                 of getPopularBuilds, over a clock.                      *)
(*   SpecCache     the CacheManager under any sequence of calls, a         *)
(*                 cacheHeroImage call being suspended at its await, for a *)
(*                 manager constructed with a small maxCacheSize.          *)
(*   SpecEvict     the CacheManager started on a loaded metadata.json of   *)
(*                 about maxCacheSize entries, under cacheHeroImage calls. *)
(*   SpecStartup   the CacheManager constructor on any loaded metadata,    *)
(*                 files missing or not: validateCacheIntegrity.           *)
(*   SpecFetch     getPopularBuilds with its retries against any upstream  *)
(*                 answers, and the RateLimiter it reports to.             *)
(*   FairSpecBlocked  getPopularBuilds called in turn against an upstream  *)
(*                 that answers every request with 403 or 429.             *)
(*   SpecLimiterCalls the RateLimiter under any sequence of                *)
(*                 updateApiHealth, calculateDelay and reset calls.        *)
(*   SpecRateLimit the per-user rate limit of the messageCreate handler    *)
(*                 (checkRateLimit) and performMemoryCleanup, over a       *)
(*                 clock.                                                  *)
(*                                                                         *)
(* Node runs every callback to its first await without interleaving, so    *)
(* one action is one synchronous segment; in the deduplication and queue   *)
(* specifications it includes the microtasks the segment releases.         *)
(* The commands being processed are counted per user: the                  *)
(* finally block of processCommand uses nothing of a command but its user. *)
(* The per-user rate limit only spaces a user's messages in time, and the  *)
(* queue specifications have no clock, so every order of messages is an    *)
(* input.                                                                  *)
(***************************************************************************)
EXTENDS Integers, Sequences, FiniteSets, TLC

VARIABLES
    now,                 \* Date.now(), in seconds
    ongoingRequests,     \* Map: normalized hero name -> {promise, requesters, startTime}
    promises,            \* the requestPromise of every computation started so far
    calls,               \* every call of getHeroWithDeduplication and what it returned
    timers,              \* pending setTimeout(..., REQUEST_TIMEOUT) callbacks
    metadata,            \* cacheManager.metadata (heroes in insertion order, failedHeroes)
    files,               \* cache/hero-images: filename -> image
    commandQueue,        \* commandQueue
    processingCommands,  \* processingCommands (a Set of user ids)
    isProcessingQueue,   \* isProcessingQueue
    running,             \* per user, the processCommand calls whose finally has not run yet
    started,             \* ids of the commands in the order processCommand was called
    lastWaited,          \* id of the latest accepted command that a handler left queued, or 0
    queueTimers,         \* pending setTimeout(processQueue, 100) callbacks
    accepted,            \* number of commands addToQueue accepted
    acceptedBy,          \* per user, the number of commands addToQueue accepted
    maxCmds,             \* per user, the commands the workload lets addToQueue accept
    lastReply,           \* what the handler answered to the latest message
    userRateLimit,       \* userRateLimit (Map: user id -> {count, lastReset})
    allowedAt,           \* per user, the requests checkRateLimit allowed: [at, windowStart]
    lastRateCheck,       \* the latest checkRateLimit call and what it returned
    apiHealth,           \* rateLimiter.apiHealth
    circuitBreaker,      \* rateLimiter.circuitBreaker
    currentStrategy,     \* rateLimiter.currentStrategy
    emitted,             \* the events the latest RateLimiter call emitted
    lastCall,            \* the latest updateApiHealth or getPopularBuilds call and its result
    successRun,          \* successes recorded in a row while half-open, up to the latest outcome
    fetches,             \* every top-level getPopularBuilds call: where it is and what it did
    thisMaxCacheSize,    \* cacheManager.maxCacheSize
    pendingWrites,       \* cacheHeroImage calls suspended at 'await this.enforceMaxCacheSize()'
    lastCacheCall        \* the latest CacheManager call and what it returned

dedupVars == <<now, ongoingRequests, promises, calls, timers, metadata, files>>
userLimitVars == <<userRateLimit, allowedAt, lastRateCheck>>
queueVars == <<commandQueue, processingCommands, isProcessingQueue, running, started, lastWaited,
               queueTimers, accepted, acceptedBy, maxCmds, lastReply, userLimitVars>>
limiterVars == <<apiHealth, circuitBreaker, currentStrategy, emitted, lastCall, successRun,
                 fetches>>
cacheVars == <<thisMaxCacheSize, pendingWrites, lastCacheCall>>
vars == <<now, ongoingRequests, promises, calls, timers, metadata, files,
          commandQueue, processingCommands, isProcessingQueue, running, started, lastWaited,
          queueTimers, accepted, acceptedBy, maxCmds, lastReply,
          userRateLimit, allowedAt, lastRateCheck,
          apiHealth, circuitBreaker, currentStrategy, emitted, lastCall, successRun, fetches,
          thisMaxCacheSize, pendingWrites, lastCacheCall>>

(***************************************************************************)
(* Bounds of the model                                                     *)
(***************************************************************************)
TicksPerTimeout == 2     \* clock steps in one REQUEST_TIMEOUT
MaxTicks == 3            \* the clock stops after this many steps
MaxCalls == 3            \* calls of getHeroWithDeduplication
MaxLightCmds == 1        \* accepted commands of each of the users u1, u2
MaxFloodCmds == 21       \* accepted commands of the user u3
MaxFairCmds == 1         \* accepted commands of each user in FairSpecQueue
TicksPerReset == 1       \* clock steps of the limiter in one circuitBreakerResetTime
MaxLimiterTicks == 4     \* the limiter's clock stops after this many steps
MaxOutcomes == 20        \* calls of updateApiHealth
MaxRetryCount == 0       \* the retry counts calculateDelay is called with
SmallCacheSize == 2      \* the maxCacheSize option of the manager in the cache specification
MaxCacheCalls == 4       \* calls of the manager in the cache specification
TicksPerTTL == 1         \* clock steps of the cache specification in one TTL
MaxCacheTicks == 2       \* the clock of the cache specification stops after this many steps

(***************************************************************************)
(* Program constants                                                       *)
(***************************************************************************)
\* The clock counts seconds (a time of the program in ms is 1000 times the model's):
\* the durations below are the program's, in seconds.
REQUEST_TIMEOUT == 120000 \div 1000
defaultTTL == 30 * 24 * 60 * 60 * (1000 \div 1000)
MAX_CONCURRENT_COMMANDS == 2
QUEUE_MAX_SIZE == 20
maxCacheSize == 500

\* one clock step, in seconds
TickLen == REQUEST_TIMEOUT \div TicksPerTimeout

(***************************************************************************)
(* Hero names are strings: sequences of characters.                        *)
(***************************************************************************)
HeroNames == { <<"A">>, <<"a", " ">> }
Users == {"u1", "u2", "u3"}

\* String.prototype.toLowerCase, character by character
LowerChar(c) == CASE c = "A" -> "a" [] c = "B" -> "b" [] OTHER -> c
toLowerCase(s) == [i \in 1..Len(s) |-> LowerChar(s[i])]

RECURSIVE trimStart(_)
trimStart(s) == IF s # <<>> /\ Head(s) = " " THEN trimStart(Tail(s)) ELSE s
RECURSIVE trimEnd(_)
trimEnd(s) == IF s # <<>> /\ s[Len(s)] = " " THEN trimEnd(SubSeq(s, 1, Len(s) - 1)) ELSE s
\* String.prototype.trim
trim(s) == trimEnd(trimStart(s))

\* heroName.toLowerCase().trim()
normalizedHeroName(heroName) == trim(toLowerCase(heroName))

Keys == { normalizedHeroName(h) : h \in HeroNames }

\* Map and plain-object helpers: has is membership in DOMAIN
MapDelete(m, k) == [x \in (DOMAIN m) \ {k} |-> m[x]]
MapSet(m, k, v) == [x \in (DOMAIN m) \cup {k} |-> IF x = k THEN v ELSE m[x]]
EmptyMap == [x \in {} |-> 0]

(***************************************************************************)
(* CacheManager (src/src/cache-manager.js).  A cache state is the record   *)
(* [heroes, failedHeroes, files, maxCacheSize]: metadata.heroes as the      *)
(* sequence of its entries in insertion order, metadata.failedHeroes, the  *)
(* image files, and the maxCacheSize the manager was constructed with.     *)
(***************************************************************************)
IsKept(c) == c \in {"a", "b", " "}          \* survives replace(/[^a-z0-9\s]/g, '')
RECURSIVE stripChars(_)
stripChars(s) ==
    IF s = <<>> THEN <<>>
    ELSE IF IsKept(Head(s)) THEN <<Head(s)>> \o stripChars(Tail(s))
    ELSE stripChars(Tail(s))
RECURSIVE spacesToUnderscore(_)
\* replace(/\s+/g, '_'): every run of whitespace becomes one underscore
spacesToUnderscore(s) ==
    IF s = <<>> THEN <<>>
    ELSE IF Head(s) = " " THEN <<"_">> \o spacesToUnderscore(trimStart(s))
    ELSE <<Head(s)>> \o spacesToUnderscore(Tail(s))
generateFilename(heroName) ==
    LET u == spacesToUnderscore(stripChars(toLowerCase(heroName)))
    IN  SubSeq(u, 1, IF Len(u) < 50 THEN Len(u) ELSE 50)

\* position of heroName's entry in metadata.heroes, 0 when it has none
HeroIndex(heroes, heroName) ==
    IF \E i \in 1..Len(heroes) : heroes[i].hero = heroName
    THEN CHOOSE i \in 1..Len(heroes) : heroes[i].hero = heroName
    ELSE 0
RemoveAt(seq, i) == SubSeq(seq, 1, i - 1) \o SubSeq(seq, i + 1, Len(seq))

removeCachedHero(cs, heroName) ==
    LET i == HeroIndex(cs.heroes, heroName)
    IN  IF i = 0 THEN [cs |-> cs, result |-> FALSE]
        ELSE [cs |-> [cs EXCEPT !.heroes = RemoveAt(cs.heroes, i),
                                !.files = MapDelete(cs.files, cs.heroes[i].filename)],
              result |-> TRUE]

\* isCached with >= in place of >
isCached_ExpiresAtTTL(cs, heroName, t) ==
    LET i == HeroIndex(cs.heroes, heroName)
    IN  IF i = 0 \/ generateFilename(heroName) \notin DOMAIN cs.files
        THEN [cs |-> cs, result |-> FALSE]
        ELSE IF (t - cs.heroes[i].lastUpdated) >= defaultTTL
        THEN [cs |-> removeCachedHero(cs, heroName).cs, result |-> FALSE]
        ELSE [cs |-> cs, result |-> TRUE]

\* lines 87-108
isCached(cs, heroName, t) ==
    LET i == HeroIndex(cs.heroes, heroName)
    IN  IF i = 0 \/ generateFilename(heroName) \notin DOMAIN cs.files
        THEN [cs |-> cs, result |-> FALSE]
        ELSE IF (t - cs.heroes[i].lastUpdated) > defaultTTL
        THEN [cs |-> removeCachedHero(cs, heroName).cs, result |-> FALSE]
        ELSE [cs |-> cs, result |-> TRUE]

\* getCachedHeroImage that counts the read and leaves lastAccessed alone
getCachedHeroImage_KeepsLastAccessed(cs, heroName, t) ==
    LET c == isCached(cs, heroName, t)
        i == HeroIndex(c.cs.heroes, heroName)
    IN  IF ~c.result THEN [cs |-> c.cs, result |-> 0]
        ELSE [cs |-> [c.cs EXCEPT !.heroes[i].accessCount = @ + 1],
              result |-> c.cs.files[generateFilename(heroName)]]

\* result is the image, 0 for null
getCachedHeroImage(cs, heroName, t) ==
    LET c == isCached(cs, heroName, t)
        i == HeroIndex(c.cs.heroes, heroName)
    IN  IF ~c.result THEN [cs |-> c.cs, result |-> 0]
        ELSE [cs |-> [c.cs EXCEPT !.heroes[i].accessCount = @ + 1,
                                  !.heroes[i].lastAccessed = t],
              result |-> c.cs.files[generateFilename(heroName)]]

\* the entry the stable sort by lastAccessed puts first
OldestIndex(heroes) ==
    CHOOSE i \in 1..Len(heroes) :
        \A j \in 1..Len(heroes) :
            \/ heroes[i].lastAccessed < heroes[j].lastAccessed
            \/ (heroes[i].lastAccessed = heroes[j].lastAccessed /\ i <= j)
RECURSIVE EvictOldest(_, _)
EvictOldest(cs, n) ==
    IF n = 0 \/ cs.heroes = <<>> THEN cs
    ELSE EvictOldest(removeCachedHero(cs, cs.heroes[OldestIndex(cs.heroes)].hero).cs, n - 1)
\* CeilTenth rounding down
CeilTenth_Floor(n) == n \div 10

\* Math.ceil(currentSize * 0.1): for every currentSize below 2000 the double
\* product has the ceiling of the exact tenth
CeilTenth(n) == (n + 9) \div 10
enforceMaxCacheSize(cs) ==
    IF Len(cs.heroes) >= cs.maxCacheSize
    THEN EvictOldest(cs, CeilTenth(Len(cs.heroes)))
    ELSE cs

\* validateCacheIntegrity that stops at the first entry it removes
RECURSIVE validateCacheIntegrity_StopsAtFirst(_, _)
validateCacheIntegrity_StopsAtFirst(cs, names) ==
    IF names = <<>> THEN cs
    ELSE LET i == HeroIndex(cs.heroes, Head(names))
         IN  IF cs.heroes[i].filename \notin DOMAIN cs.files
             THEN [cs EXCEPT !.heroes = RemoveAt(cs.heroes, i)]
             ELSE validateCacheIntegrity_StopsAtFirst(cs, Tail(names))

\* lines 281-299: the forEach over names, the Object.keys(this.metadata.heroes) taken
\* at the start: an entry whose file does not exist is deleted from metadata
RECURSIVE validateCacheIntegrity(_, _)
validateCacheIntegrity(cs, names) ==
    IF names = <<>> THEN cs
    ELSE LET i == HeroIndex(cs.heroes, Head(names))
         IN  validateCacheIntegrity(
                 IF cs.heroes[i].filename \notin DOMAIN cs.files
                 THEN [cs EXCEPT !.heroes = RemoveAt(cs.heroes, i)]
                 ELSE cs,
                 Tail(names))
\* Object.keys(this.metadata.heroes)
ObjectKeys(heroes) == [i \in 1..Len(heroes) |-> heroes[i].hero]

NewEntry(heroName, t) ==
    [hero |-> heroName, filename |-> generateFilename(heroName),
     lastUpdated |-> t, accessCount |-> 0, lastAccessed |-> t]

\* writeHeroImage where a rewritten entry keeps its accessCount
writeHeroImage_KeepsAccessCount(e, heroName, imageBuffer, timestamp, t, writeOk) ==
    LET i == HeroIndex(e.heroes, heroName)
    IN  IF writeOk
        THEN [cs |-> [e EXCEPT
                  !.files = MapSet(e.files, generateFilename(heroName), imageBuffer),
                  !.heroes = IF i = 0 THEN Append(e.heroes, NewEntry(heroName, timestamp))
                             ELSE [e.heroes EXCEPT ![i] =
                                      [NewEntry(heroName, timestamp) EXCEPT
                                          !.accessCount = e.heroes[i].accessCount]]],
              result |-> TRUE]
        ELSE [cs |-> [e EXCEPT !.failedHeroes = Append(@, [hero |-> heroName, timestamp |-> t])],
              result |-> FALSE]

\* lines 127-168: cacheHeroImage after 'await this.enforceMaxCacheSize()'; timestamp
\* was taken before the await, t is the time now; writeOk = FALSE: fs.writeFileSync
\* throws
writeHeroImage(e, heroName, imageBuffer, timestamp, t, writeOk) ==
    LET i == HeroIndex(e.heroes, heroName)
    IN  IF writeOk
        THEN [cs |-> [e EXCEPT
                  !.files = MapSet(e.files, generateFilename(heroName), imageBuffer),
                  !.heroes = IF i = 0 THEN Append(e.heroes, NewEntry(heroName, timestamp))
                             ELSE [e.heroes EXCEPT ![i] = NewEntry(heroName, timestamp)]],
              result |-> TRUE]
        ELSE [cs |-> [e EXCEPT !.failedHeroes = Append(@, [hero |-> heroName, timestamp |-> t])],
              result |-> FALSE]

\* lines 117-169, run without another call in between
cacheHeroImage(cs, heroName, imageBuffer, t, writeOk) ==
    writeHeroImage(enforceMaxCacheSize(cs), heroName, imageBuffer, t, t, writeOk)

CacheState == [heroes |-> metadata.heroes, failedHeroes |-> metadata.failedHeroes,
               files |-> files, maxCacheSize |-> thisMaxCacheSize]

NoCacheCall == [op |-> "none", hero |-> <<>>, result |-> FALSE, image |-> 0, no |-> 0]

\* the names the cache specification calls the manager with
CacheHeroNames == { <<"A">>, <<"a">>, <<"B">> }

\* one clock step of the cache specification, in seconds
CacheTickLen == defaultTTL \div TicksPerTTL

SetCacheState(cs) ==
    /\ metadata' = [heroes |-> cs.heroes, failedHeroes |-> cs.failedHeroes]
    /\ files' = cs.files

CacheCall(op, heroName, result, image) ==
    /\ lastCacheCall.no < MaxCacheCalls
    /\ lastCacheCall' = [op |-> op, hero |-> heroName, result |-> result, image |-> image,
                         no |-> lastCacheCall.no + 1]

\* a call of cacheManager.isCached(heroName)
IsCachedCall(heroName) ==
    LET c == isCached(CacheState, heroName, now)
    IN  /\ CacheCall("isCached", heroName, c.result, 0)
        /\ SetCacheState(c.cs)
        /\ UNCHANGED <<now, ongoingRequests, promises, calls, timers>>
        /\ UNCHANGED <<thisMaxCacheSize, pendingWrites>>
        /\ UNCHANGED <<queueVars, limiterVars>>

\* a call of cacheManager.getCachedHeroImage(heroName)
GetCachedHeroImageCall(heroName) ==
    LET c == getCachedHeroImage(CacheState, heroName, now)
    IN  /\ CacheCall("getCachedHeroImage", heroName, c.result # 0, c.result)
        /\ SetCacheState(c.cs)
        /\ UNCHANGED <<now, ongoingRequests, promises, calls, timers>>
        /\ UNCHANGED <<thisMaxCacheSize, pendingWrites>>
        /\ UNCHANGED <<queueVars, limiterVars>>

\* a call of cacheManager.removeCachedHero(heroName)
RemoveCachedHeroCall(heroName) ==
    LET c == removeCachedHero(CacheState, heroName)
    IN  /\ CacheCall("removeCachedHero", heroName, c.result, 0)
        /\ SetCacheState(c.cs)
        /\ UNCHANGED <<now, ongoingRequests, promises, calls, timers>>
        /\ UNCHANGED <<thisMaxCacheSize, pendingWrites>>
        /\ UNCHANGED <<queueVars, limiterVars>>

\* a call of cacheManager.validateCacheIntegrity(): by init() at construction, by
\* the test suite later
ValidateCacheIntegrityCall ==
    /\ CacheCall("validateCacheIntegrity", <<>>, FALSE, 0)
    /\ SetCacheState(validateCacheIntegrity(CacheState, ObjectKeys(metadata.heroes)))
    /\ UNCHANGED <<now, ongoingRequests, promises, calls, timers>>
    /\ UNCHANGED <<thisMaxCacheSize, pendingWrites>>
    /\ UNCHANGED <<queueVars, limiterVars>>

\* lines 117-125: a call of cacheManager.cacheHeroImage(heroName, imageBuffer) up to
\* 'await this.enforceMaxCacheSize()', where it is suspended; every call brings an
\* image of its own, named by the number of the call
CacheHeroImageBegin(heroName) ==
    /\ CacheCall("cacheHeroImage", heroName, FALSE, lastCacheCall.no + 1)
    /\ SetCacheState(enforceMaxCacheSize(CacheState))
    /\ pendingWrites' = pendingWrites \cup {[hero |-> heroName,
                                              imageBuffer |-> lastCacheCall.no + 1,
                                              timestamp |-> now]}
    /\ UNCHANGED <<now, ongoingRequests, promises, calls, timers>>
    /\ UNCHANGED thisMaxCacheSize
    /\ UNCHANGED <<queueVars, limiterVars>>

\* lines 127-168: the suspended call w resumes
CacheHeroImageResume(w, writeOk) ==
    LET c == writeHeroImage(CacheState, w.hero, w.imageBuffer, w.timestamp, now, writeOk)
    IN  /\ w \in pendingWrites
        /\ pendingWrites' = pendingWrites \ {w}
        /\ SetCacheState(c.cs)
        /\ UNCHANGED <<now, ongoingRequests, promises, calls, timers>>
        /\ UNCHANGED <<thisMaxCacheSize, lastCacheCall>>
        /\ UNCHANGED <<queueVars, limiterVars>>

\* The clock of the cache specification advances.  A suspended call resumes before
\* the clock moves on.
CacheTick ==
    /\ now + CacheTickLen <= MaxCacheTicks * CacheTickLen
    /\ pendingWrites = {}
    /\ now' = now + CacheTickLen
    /\ UNCHANGED <<ongoingRequests, promises, calls, timers, metadata, files>>
    /\ UNCHANGED <<queueVars, limiterVars, cacheVars>>

(***************************************************************************)
(* Deduplication (src/src/briar-bot.js, getHeroWithDeduplication)          *)
(***************************************************************************)
Pending == [kind |-> "pending", screenshot |-> 0, fromCache |-> FALSE]
NullResult == [kind |-> "null", screenshot |-> 0, fromCache |-> FALSE]
ErrorResult == [kind |-> "error", screenshot |-> 0, fromCache |-> FALSE]
Artifact(img, cached) == [kind |-> "artifact", screenshot |-> img, fromCache |-> cached]

\* JoinedResult with the awaited value dropped
JoinedResult_AlwaysNull(outcome) == NullResult

\* what a caller that joined gets from 'await existingRequest.promise' in its try/catch
JoinedResult(outcome) == IF outcome.kind = "error" THEN NullResult ELSE outcome

\* the value a call returns once the promise it waits for has settled with outcome
Delivered(call, outcome) == IF call.joined THEN JoinedResult(outcome) ELSE outcome

\* the requestPromise settles: every call waiting for it gets its value
Deliver(cs, p, outcome) ==
    [i \in 1..Len(cs) |->
        IF cs[i].promise = p /\ cs[i].result = Pending
        THEN [cs[i] EXCEPT !.result = Delivered(cs[i], outcome)]
        ELSE cs[i]]

\* a finally block that leaves the entry in place
FinallyDelete_KeepsEntry(requests, key) == requests

\* the finally block of the shared computation
FinallyDelete(requests, key) == MapDelete(requests, key)

\* lines 317-331: an entry exists, the caller joins it
JoinExisting(heroName) ==
    LET key == normalizedHeroName(heroName)
        existingRequest == ongoingRequests[key]
        p == existingRequest.promise
        call == [hero |-> heroName, promise |-> p, joined |-> TRUE, result |-> Pending]
    IN  /\ key \in DOMAIN ongoingRequests
        /\ ongoingRequests' = [ongoingRequests EXCEPT
                                  ![key].requesters = Append(@, Len(calls) + 1)]
        /\ calls' = Append(calls,
                       IF promises[p].pc = "settled"
                       THEN [call EXCEPT !.result = Delivered(call, promises[p].outcome)]
                       ELSE call)
        /\ UNCHANGED <<now, promises, timers, metadata, files>>

\* lines 333-382: no entry; the computation starts, runs to its first await (or to
\* its end on a cache hit), then the entry and its timer are registered
StartComputation(heroName) ==
    LET key == normalizedHeroName(heroName)
        p == Len(promises) + 1
        hit == getCachedHeroImage(CacheState, heroName, now)
        outcome == IF hit.result # 0 THEN Artifact(hit.result, TRUE) ELSE Pending
        settled == hit.result # 0
        afterBody == IF settled THEN FinallyDelete(ongoingRequests, key) ELSE ongoingRequests
        requestData == [promise |-> p, requesters |-> <<Len(calls) + 1>>, startTime |-> now]
    IN  /\ key \notin DOMAIN ongoingRequests
        /\ promises' = Append(promises,
                          [hero |-> heroName, key |-> key, startTime |-> now,
                           pc |-> IF settled THEN "settled" ELSE "analyze",
                           outcome |-> outcome])
        /\ metadata' = [heroes |-> hit.cs.heroes, failedHeroes |-> hit.cs.failedHeroes]
        /\ files' = hit.cs.files
        /\ ongoingRequests' = MapSet(afterBody, key, requestData)
        /\ timers' = timers \cup {[key |-> key, by |-> p, due |-> now + REQUEST_TIMEOUT]}
        /\ calls' = Append(calls, [hero |-> heroName, promise |-> p, joined |-> FALSE,
                                   result |-> outcome])
        /\ UNCHANGED now

getHeroWithDeduplication(heroName) ==
    /\ Len(calls) < MaxCalls
    /\ \/ JoinExisting(heroName)
       \/ StartComputation(heroName)
    /\ UNCHANGED <<queueVars, limiterVars, cacheVars>>

\* the computation p ends with outcome: return or throw, then finally
Settle(p, outcome) ==
    /\ promises' = [promises EXCEPT ![p].pc = "settled", ![p].outcome = outcome]
    /\ ongoingRequests' = FinallyDelete(ongoingRequests, promises[p].key)
    /\ calls' = Deliver(calls, p, outcome)

\* line 344-348: analyzeHeroData resolves with data or with null
AnalyzeDone(p, found) ==
    /\ p \in 1..Len(promises)
    /\ promises[p].pc = "analyze"
    /\ IF found
       THEN /\ promises' = [promises EXCEPT ![p].pc = "render"]
            /\ UNCHANGED <<ongoingRequests, calls>>
       ELSE Settle(p, NullResult)
    /\ UNCHANGED <<now, timers, metadata, files>>
    /\ UNCHANGED <<queueVars, limiterVars, cacheVars>>

\* RenderDone where a cacheHeroImage call that fails rejects the computation
RenderDone_WriteFailureThrows(p, rendered, writeOk) ==
    /\ p \in 1..Len(promises)
    /\ promises[p].pc = "render"
    /\ IF rendered
       THEN LET w == cacheHeroImage(CacheState, promises[p].hero, p, now, writeOk)
            IN  /\ metadata' = [heroes |-> w.cs.heroes, failedHeroes |-> w.cs.failedHeroes]
                /\ files' = w.cs.files
                /\ Settle(p, IF w.result THEN Artifact(p, FALSE) ELSE ErrorResult)
       ELSE /\ Settle(p, ErrorResult)
            /\ UNCHANGED <<metadata, files>>
    /\ UNCHANGED <<now, timers>>
    /\ UNCHANGED <<queueVars, limiterVars, cacheVars>>

\* lines 350-362: generateReportImage resolves (the image is cached, the result
\* returned) or throws
RenderDone(p, rendered, writeOk) ==
    /\ p \in 1..Len(promises)
    /\ promises[p].pc = "render"
    /\ IF rendered
       THEN LET w == cacheHeroImage(CacheState, promises[p].hero, p, now, writeOk)
            IN  /\ metadata' = [heroes |-> w.cs.heroes, failedHeroes |-> w.cs.failedHeroes]
                /\ files' = w.cs.files
                /\ Settle(p, Artifact(p, FALSE))
       ELSE /\ Settle(p, ErrorResult)
            /\ UNCHANGED <<metadata, files>>
    /\ UNCHANGED <<now, timers>>
    /\ UNCHANGED <<queueVars, limiterVars, cacheVars>>

\* TimeoutFire without the delete
TimeoutFire_KeepsEntry(t) ==
    /\ t \in timers
    /\ now >= t.due
    /\ timers' = timers \ {t}
    /\ UNCHANGED <<now, ongoingRequests, promises, calls, metadata, files>>
    /\ UNCHANGED <<queueVars, limiterVars, cacheVars>>

\* lines 375-380: the timeout callback of the request that started promise t.by
TimeoutFire(t) ==
    /\ t \in timers
    /\ now >= t.due
    /\ timers' = timers \ {t}
    /\ ongoingRequests' = IF t.key \in DOMAIN ongoingRequests
                          THEN MapDelete(ongoingRequests, t.key)
                          ELSE ongoingRequests
    /\ UNCHANGED <<now, promises, calls, metadata, files>>
    /\ UNCHANGED <<queueVars, limiterVars, cacheVars>>

\* lines 388-405
Expired(requests, t) == { k \in DOMAIN requests : t - requests[k].startTime > REQUEST_TIMEOUT }
cleanupExpiredRequests ==
    /\ ongoingRequests' = [k \in (DOMAIN ongoingRequests) \ Expired(ongoingRequests, now)
                              |-> ongoingRequests[k]]
    /\ UNCHANGED <<now, promises, calls, timers, metadata, files>>
    /\ UNCHANGED <<queueVars, limiterVars, cacheVars>>

\* The clock advances.  A timer that is due runs before the clock moves on: the
\* event loop is never busy for a clock step.
Tick ==
    /\ now + TickLen <= MaxTicks * TickLen
    /\ \A t \in timers : t.due > now
    /\ now' = now + TickLen
    /\ UNCHANGED <<ongoingRequests, promises, calls, timers, metadata, files>>
    /\ UNCHANGED <<queueVars, limiterVars, cacheVars>>

(***************************************************************************)
(* Command queue (src/src/briar-bot.js).  A queue state is the record      *)
(* [commandQueue, processingCommands, isProcessingQueue, running, started, *)
(* queueTimers]; a command is [id, user], id being its acceptance number.  *)
(***************************************************************************)
QueueState == [commandQueue |-> commandQueue, processingCommands |-> processingCommands,
               isProcessingQueue |-> isProcessingQueue, running |-> running,
               started |-> started, queueTimers |-> queueTimers]

\* lines 254-259: processCommand up to its first await
processCommandStart(qs, commandData) ==
    [qs EXCEPT !.processingCommands = @ \cup {commandData.user},
               !.running = [@ EXCEPT ![commandData.user] = @ + 1],
               !.started = Append(@, commandData.id)]

\* processQueueLoop taking the newest command (pop) instead of the oldest (shift)
RECURSIVE processQueueLoop_Lifo(_)
processQueueLoop_Lifo(qs) ==
    IF Len(qs.commandQueue) > 0 /\ Cardinality(qs.processingCommands) < MAX_CONCURRENT_COMMANDS
    THEN processQueueLoop_Lifo(processCommandStart(
             [qs EXCEPT !.commandQueue = SubSeq(@, 1, Len(@) - 1)],
             qs.commandQueue[Len(qs.commandQueue)]))
    ELSE qs

\* lines 241-244: the while loop of processQueue
RECURSIVE processQueueLoop(_)
processQueueLoop(qs) ==
    IF Len(qs.commandQueue) > 0 /\ Cardinality(qs.processingCommands) < MAX_CONCURRENT_COMMANDS
    THEN processQueueLoop(processCommandStart(
             [qs EXCEPT !.commandQueue = Tail(@)], Head(qs.commandQueue)))
    ELSE qs

\* lines 236-252
processQueue(qs) ==
    IF qs.isProcessingQueue \/ Len(qs.commandQueue) = 0 THEN qs
    ELSE LET l == processQueueLoop([qs EXCEPT !.isProcessingQueue = TRUE])
         IN  [l EXCEPT !.isProcessingQueue = FALSE,
                       !.queueTimers = IF Len(l.commandQueue) > 0 THEN @ + 1 ELSE @]

\* addToQueue with > in place of >=
addToQueue_OffByOne(qs, commandData) ==
    IF Len(qs.commandQueue) > QUEUE_MAX_SIZE
    THEN [qs |-> qs, success |-> FALSE, reason |-> "queue_full", position |-> -1]
    ELSE LET pushed == [qs EXCEPT !.commandQueue = Append(@, commandData)]
         IN  [qs |-> IF ~pushed.isProcessingQueue THEN processQueue(pushed) ELSE pushed,
              success |-> TRUE, reason |-> "none", position |-> Len(pushed.commandQueue)]

\* lines 221-234
addToQueue(qs, commandData) ==
    IF Len(qs.commandQueue) >= QUEUE_MAX_SIZE
    THEN [qs |-> qs, success |-> FALSE, reason |-> "queue_full", position |-> -1]
    ELSE LET pushed == [qs EXCEPT !.commandQueue = Append(@, commandData)]
         IN  [qs |-> IF ~pushed.isProcessingQueue THEN processQueue(pushed) ELSE pushed,
              success |-> TRUE, reason |-> "none", position |-> Len(pushed.commandQueue)]

SetQueueState(qs) ==
    /\ commandQueue' = qs.commandQueue
    /\ processingCommands' = qs.processingCommands
    /\ isProcessingQueue' = qs.isProcessingQueue
    /\ running' = qs.running
    /\ started' = qs.started
    /\ queueTimers' = qs.queueTimers
    /\ lastWaited' = IF Len(qs.commandQueue) > 0
                     THEN qs.commandQueue[Len(qs.commandQueue)].id ELSE lastWaited

\* lines 1934-1965: the messageCreate handler for a message of user that passed the
\* rate limit, the validation and the character search
HandleCommand(user) ==
    /\ acceptedBy[user] < maxCmds[user]
    /\ IF user \in processingCommands
       THEN /\ lastReply' = [user |-> user, outcome |-> "alreadyProcessing",
                             position |-> 0, queuedNotice |-> FALSE]
            /\ UNCHANGED <<commandQueue, processingCommands, isProcessingQueue, running,
                           started, lastWaited, queueTimers, accepted, acceptedBy>>
       ELSE LET queueResult == addToQueue(QueueState, [id |-> accepted + 1, user |-> user])
            IN  /\ SetQueueState(queueResult.qs)
                /\ accepted' = IF queueResult.success THEN accepted + 1 ELSE accepted
                /\ acceptedBy' = IF queueResult.success
                                 THEN [acceptedBy EXCEPT ![user] = @ + 1] ELSE acceptedBy
                /\ lastReply' =
                     [user |-> user,
                      outcome |-> IF queueResult.success THEN "accepted" ELSE queueResult.reason,
                      position |-> queueResult.position,
                      queuedNotice |-> queueResult.success
                                       /\ queueResult.position > MAX_CONCURRENT_COMMANDS]
    /\ UNCHANGED maxCmds
    /\ UNCHANGED <<userLimitVars, dedupVars, limiterVars, cacheVars>>

\* a setTimeout(processQueue, 100) callback runs
ProcessQueueTimer ==
    /\ queueTimers > 0
    /\ SetQueueState(processQueue([QueueState EXCEPT !.queueTimers = @ - 1]))
    /\ UNCHANGED <<accepted, acceptedBy, maxCmds, lastReply>>
    /\ UNCHANGED <<userLimitVars, dedupVars, limiterVars, cacheVars>>

\* the finally block without processingCommands.delete
ProcessCommandFinish_NoDelete(userId) ==
    /\ running[userId] > 0
    /\ running' = [running EXCEPT ![userId] = @ - 1]
    /\ queueTimers' = queueTimers + 1
    /\ UNCHANGED <<commandQueue, processingCommands, isProcessingQueue, started, lastWaited,
                   accepted, acceptedBy, maxCmds, lastReply>>
    /\ UNCHANGED <<userLimitVars, dedupVars, limiterVars, cacheVars>>

\* lines 293-299: the finally block of processCommand, however its body ended
ProcessCommandFinish(userId) ==
    /\ running[userId] > 0
    /\ processingCommands' = processingCommands \ {userId}
    /\ running' = [running EXCEPT ![userId] = @ - 1]
    /\ queueTimers' = queueTimers + 1
    /\ UNCHANGED <<commandQueue, isProcessingQueue, started, lastWaited, accepted, acceptedBy,
                   maxCmds, lastReply>>
    /\ UNCHANGED <<userLimitVars, dedupVars, limiterVars, cacheVars>>

(***************************************************************************)
(* Per-user rate limit (src/src/briar-bot.js).  userRateLimit maps a user  *)
(* id to [count, lastReset]; times are in seconds.                         *)
(***************************************************************************)
RATE_LIMIT_REQUESTS == 3
RateTicksPerWindow == 2
MaxRateTicks == 5
MaxRateChecks == 7
RATE_LIMIT_WINDOW == 30000 \div 1000

\* Math.ceil(ms / 1000) of a whole number of seconds
CeilSeconds(seconds) == seconds

\* checkRateLimit with <= in place of <
checkRateLimit_OneMore(limits, userId, t) ==
    IF userId \notin DOMAIN limits
    THEN [limits |-> MapSet(limits, userId, [count |-> 1, lastReset |-> t]),
          allowed |-> TRUE, resetTime |-> 0]
    ELSE IF t - limits[userId].lastReset > RATE_LIMIT_WINDOW
    THEN [limits |-> MapSet(limits, userId, [count |-> 1, lastReset |-> t]),
          allowed |-> TRUE, resetTime |-> 0]
    ELSE IF limits[userId].count <= RATE_LIMIT_REQUESTS
    THEN [limits |-> [limits EXCEPT ![userId].count = @ + 1],
          allowed |-> TRUE, resetTime |-> 0]
    ELSE [limits |-> limits, allowed |-> FALSE,
          resetTime |-> CeilSeconds(limits[userId].lastReset + RATE_LIMIT_WINDOW - t)]

\* lines 195-218
checkRateLimit(limits, userId, t) ==
    IF userId \notin DOMAIN limits
    THEN [limits |-> MapSet(limits, userId, [count |-> 1, lastReset |-> t]),
          allowed |-> TRUE, resetTime |-> 0]
    ELSE IF t - limits[userId].lastReset > RATE_LIMIT_WINDOW
    THEN [limits |-> MapSet(limits, userId, [count |-> 1, lastReset |-> t]),
          allowed |-> TRUE, resetTime |-> 0]
    ELSE IF limits[userId].count < RATE_LIMIT_REQUESTS
    THEN [limits |-> [limits EXCEPT ![userId].count = @ + 1],
          allowed |-> TRUE, resetTime |-> 0]
    ELSE [limits |-> limits, allowed |-> FALSE,
          resetTime |-> CeilSeconds(limits[userId].lastReset + RATE_LIMIT_WINDOW - t)]

NoRateCheck == [user |-> "none", allowed |-> FALSE, resetTime |-> 0, no |-> 0]

\* one clock step of the rate-limit specification, in seconds
RateTickLen == RATE_LIMIT_WINDOW \div RateTicksPerWindow

\* the users who write in the rate-limit specification
RateUsers == { "u1", "u2" }

\* lines 1888-1931: the messageCreate handler for a '!' message of user whose text
\* names no character: the rate limit is checked, and the handler replies and
\* returns (rate limited, invalid input or character not found)
MessageCreateUnmatched(user) ==
    /\ lastRateCheck.no < MaxRateChecks
    /\ LET rateLimitResult == checkRateLimit(userRateLimit, user, now)
       IN  /\ userRateLimit' = rateLimitResult.limits
           /\ allowedAt' = IF rateLimitResult.allowed
                           THEN [allowedAt EXCEPT ![user] =
                                     Append(@, [at |-> now,
                                                windowStart |->
                                                    rateLimitResult.limits[user].lastReset])]
                           ELSE allowedAt
           /\ lastRateCheck' = [user |-> user, allowed |-> rateLimitResult.allowed,
                                resetTime |-> rateLimitResult.resetTime,
                                no |-> lastRateCheck.no + 1]
    /\ UNCHANGED <<commandQueue, processingCommands, isProcessingQueue, running, started,
                   lastWaited, queueTimers, accepted, acceptedBy, maxCmds, lastReply>>
    /\ UNCHANGED <<dedupVars, limiterVars, cacheVars>>

\* cache-manager.js lines 256-276: cleanupExpiredEntries over the names in names
RECURSIVE cleanupExpiredEntries(_, _, _)
cleanupExpiredEntries(cs, names, t) ==
    IF names = <<>> THEN cs
    ELSE LET i == HeroIndex(cs.heroes, Head(names))
         IN  cleanupExpiredEntries(
                 IF i # 0 /\ (t - cs.heroes[i].lastUpdated) > defaultTTL
                 THEN removeCachedHero(cs, Head(names)).cs ELSE cs,
                 Tail(names), t)

\* lines 412-417 of performMemoryCleanup
cleanOldRateLimits(limits, t) ==
    [u \in { x \in DOMAIN limits : ~(t - limits[x].lastReset > RATE_LIMIT_WINDOW * 2) }
        |-> limits[u]]

\* lines 408-433: performMemoryCleanup, which the finally block of processCommand
\* calls when MEMORY_CLEANUP_INTERVAL has passed since the last cleanup (the time
\* of the last cleanup is not part of the state: the cleanup may run at any time)
PerformMemoryCleanup ==
    /\ userRateLimit' = cleanOldRateLimits(userRateLimit, now)
    /\ SetCacheState(cleanupExpiredEntries(CacheState, ObjectKeys(metadata.heroes), now))
    /\ ongoingRequests' = [k \in (DOMAIN ongoingRequests) \ Expired(ongoingRequests, now)
                              |-> ongoingRequests[k]]
    /\ UNCHANGED <<now, promises, calls, timers>>
    /\ UNCHANGED <<commandQueue, processingCommands, isProcessingQueue, running, started,
                   lastWaited, queueTimers, accepted, acceptedBy, maxCmds, lastReply,
                   allowedAt, lastRateCheck>>
    /\ UNCHANGED <<limiterVars, cacheVars>>

\* the clock advances
RateTick ==
    /\ now + RateTickLen <= MaxRateTicks * RateTickLen
    /\ now' = now + RateTickLen
    /\ UNCHANGED <<ongoingRequests, promises, calls, timers, metadata, files>>
    /\ UNCHANGED <<queueVars, limiterVars, cacheVars>>

(***************************************************************************)
(* RateLimiter (src/unnamed/part_007, the class of lines 1-381) with the   *)
(* options briar-bot.js constructs it with.  A limiter state is the record *)
(* [apiHealth, circuitBreaker, currentStrategy, emitted].  A status code   *)
(* is a string; "null" and "undefined" are the two JavaScript values.      *)
(* openedAt = -1 is null: the code reads openedAt only while isOpen.       *)
(* The request window of apiHealth (windowStart, requestsThisWindow) is    *)
(* left out: the class writes it and reads it only to report it.           *)
(***************************************************************************)
circuitBreakerThreshold == 15
circuitBreakerResetTime == 900000 \div 1000
\* 'Last success within 30s', in seconds
recentSuccess == 30000 \div 1000
StatusCodes == {"200", "null", "403", "429", "404", "undefined"}

\* one clock step of the limiter specification, in seconds
LimiterTickLen == circuitBreakerResetTime \div TicksPerReset

LimiterState == [apiHealth |-> apiHealth, circuitBreaker |-> circuitBreaker,
                 currentStrategy |-> currentStrategy, emitted |-> <<>>]

Event(name, failures, t, reason) ==
    [event |-> name, failures |-> failures, timestamp |-> t, reason |-> reason]

\* line 135
countRequest(rl, t) == [rl EXCEPT !.apiHealth.totalRequests = @ + 1]

\* recordSuccess that leaves consecutive429s as it was
recordSuccess_Keeps429s(rl, t) ==
    LET h == [rl.apiHealth EXCEPT !.successfulRequests = @ + 1, !.lastSuccessTime = t,
                                  !.consecutive403s = 0]
        counted == [rl.circuitBreaker EXCEPT !.halfOpenSuccesses = @ + 1,
                                             !.halfOpenAttempts = @ + 1]
    IN  IF rl.circuitBreaker.isHalfOpen
        THEN IF counted.halfOpenSuccesses >= 3
             THEN [rl EXCEPT !.apiHealth = h,
                             !.circuitBreaker = [counted EXCEPT !.isOpen = FALSE,
                                                                !.isHalfOpen = FALSE,
                                                                !.failureCount = 0,
                                                                !.halfOpenSuccesses = 0,
                                                                !.halfOpenAttempts = 0],
                             !.emitted = Append(@, Event("circuitBreakerClose", -1, t,
                                                         "half-open-success"))]
             ELSE [rl EXCEPT !.apiHealth = h, !.circuitBreaker = counted]
        ELSE [rl EXCEPT !.apiHealth = h, !.circuitBreaker.failureCount = 0]

\* lines 145-170: statusCode === 200 || statusCode === null
recordSuccess(rl, t) ==
    LET h == [rl.apiHealth EXCEPT !.successfulRequests = @ + 1, !.lastSuccessTime = t,
                                  !.consecutive403s = 0, !.consecutive429s = 0]
        counted == [rl.circuitBreaker EXCEPT !.halfOpenSuccesses = @ + 1,
                                             !.halfOpenAttempts = @ + 1]
    IN  IF rl.circuitBreaker.isHalfOpen
        THEN IF counted.halfOpenSuccesses >= 3
             THEN [rl EXCEPT !.apiHealth = h,
                             !.circuitBreaker = [counted EXCEPT !.isOpen = FALSE,
                                                                !.isHalfOpen = FALSE,
                                                                !.failureCount = 0,
                                                                !.halfOpenSuccesses = 0,
                                                                !.halfOpenAttempts = 0],
                             !.emitted = Append(@, Event("circuitBreakerClose", -1, t,
                                                         "half-open-success"))]
             ELSE [rl EXCEPT !.apiHealth = h, !.circuitBreaker = counted]
        ELSE [rl EXCEPT !.apiHealth = h, !.circuitBreaker.failureCount = 0]

\* recordFailure that reopens without a new openedAt
recordFailure_KeepsOpenedAt(rl, statusCode, t) ==
    LET h == IF statusCode = "403"
             THEN [rl.apiHealth EXCEPT !.consecutive403s = @ + 1]
             ELSE [rl.apiHealth EXCEPT !.consecutive429s = @ + 1]
        cb == [rl.circuitBreaker EXCEPT !.failureCount = @ + 1]
    IN  IF cb.isHalfOpen
        THEN [rl EXCEPT !.apiHealth = h,
                        !.circuitBreaker = [cb EXCEPT !.isHalfOpen = FALSE, !.isOpen = TRUE,
                                                      !.halfOpenSuccesses = 0,
                                                      !.halfOpenAttempts = 0],
                        !.emitted = Append(@, Event("circuitBreakerOpen", cb.failureCount, t,
                                                    "half-open-failure"))]
        ELSE [rl EXCEPT !.apiHealth = h, !.circuitBreaker = cb]

\* lines 172-195: statusCode === 403 || statusCode === 429
recordFailure(rl, statusCode, t) ==
    LET h == IF statusCode = "403"
             THEN [rl.apiHealth EXCEPT !.consecutive403s = @ + 1]
             ELSE [rl.apiHealth EXCEPT !.consecutive429s = @ + 1]
        cb == [rl.circuitBreaker EXCEPT !.failureCount = @ + 1]
    IN  IF cb.isHalfOpen
        THEN [rl EXCEPT !.apiHealth = h,
                        !.circuitBreaker = [cb EXCEPT !.isHalfOpen = FALSE, !.isOpen = TRUE,
                                                      !.openedAt = t,
                                                      !.halfOpenSuccesses = 0,
                                                      !.halfOpenAttempts = 0],
                        !.emitted = Append(@, Event("circuitBreakerOpen", cb.failureCount, t,
                                                    "half-open-failure"))]
        ELSE [rl EXCEPT !.apiHealth = h, !.circuitBreaker = cb]

\* openCircuit with > in place of >=
openCircuit_Late(rl, t) ==
    IF /\ ~rl.circuitBreaker.isOpen
       /\ ~rl.circuitBreaker.isHalfOpen
       /\ rl.circuitBreaker.failureCount > circuitBreakerThreshold
    THEN [rl EXCEPT !.circuitBreaker.isOpen = TRUE,
                    !.circuitBreaker.openedAt = t,
                    !.currentStrategy = "circuit_breaker",
                    !.emitted = Append(@, Event("circuitBreakerOpen",
                                                rl.circuitBreaker.failureCount, t,
                                                "threshold-exceeded"))]
    ELSE rl

\* lines 212-223
openCircuit(rl, t) ==
    IF /\ ~rl.circuitBreaker.isOpen
       /\ ~rl.circuitBreaker.isHalfOpen
       /\ rl.circuitBreaker.failureCount >= circuitBreakerThreshold
    THEN [rl EXCEPT !.circuitBreaker.isOpen = TRUE,
                    !.circuitBreaker.openedAt = t,
                    !.currentStrategy = "circuit_breaker",
                    !.emitted = Append(@, Event("circuitBreakerOpen",
                                                rl.circuitBreaker.failureCount, t,
                                                "threshold-exceeded"))]
    ELSE rl

\* halfOpenCircuit that leaves isOpen set
halfOpenCircuit_StaysOpen(rl, t) ==
    IF /\ rl.circuitBreaker.isOpen
       /\ ~rl.circuitBreaker.isHalfOpen
       /\ t - rl.circuitBreaker.openedAt > circuitBreakerResetTime
    THEN [rl EXCEPT !.circuitBreaker.isHalfOpen = TRUE,
                    !.circuitBreaker.halfOpenSuccesses = 0,
                    !.circuitBreaker.halfOpenAttempts = 0,
                    !.emitted = Append(@, Event("circuitBreakerHalfOpen", -1, t, "none"))]
    ELSE rl

\* lines 226-236
halfOpenCircuit(rl, t) ==
    IF /\ rl.circuitBreaker.isOpen
       /\ ~rl.circuitBreaker.isHalfOpen
       /\ t - rl.circuitBreaker.openedAt > circuitBreakerResetTime
    THEN [rl EXCEPT !.circuitBreaker.isHalfOpen = TRUE,
                    !.circuitBreaker.isOpen = FALSE,
                    !.circuitBreaker.halfOpenSuccesses = 0,
                    !.circuitBreaker.halfOpenAttempts = 0,
                    !.emitted = Append(@, Event("circuitBreakerHalfOpen", -1, t, "none"))]
    ELSE rl

\* lines 208-237
checkCircuitBreaker(rl, t) == halfOpenCircuit(openCircuit(rl, t), t)

\* successRate < this.config.successRateThreshold (0.1), successRate being
\* successfulRequests / totalRequests, or 0 when totalRequests is 0
successRateBelowThreshold(h) ==
    IF h.totalRequests > 0 THEN 10 * h.successfulRequests < h.totalRequests ELSE TRUE
\* successRate > 0.8
successRateHigh(h) ==
    IF h.totalRequests > 0 THEN 5 * h.successfulRequests > 4 * h.totalRequests ELSE FALSE

\* adaptStrategy that tests consecutive429s before consecutive403s
adaptStrategy_GentleFirst(rl, t) ==
    LET h == rl.apiHealth
        timeSinceLastSuccess == t - h.lastSuccessTime
    IN  [rl EXCEPT !.currentStrategy =
            IF rl.circuitBreaker.isOpen THEN "circuit_breaker"
            ELSE IF h.consecutive429s >= 3 THEN "gentle"
            ELSE IF h.consecutive403s >= 5 THEN "stealth"
            ELSE IF 10 * h.successfulRequests < h.totalRequests THEN "moderate"
            ELSE IF timeSinceLastSuccess < recentSuccess
                    /\ 5 * h.successfulRequests > 4 * h.totalRequests
                 THEN "aggressive"
            ELSE "moderate"]

\* lines 242-265
adaptStrategy(rl, t) ==
    LET h == rl.apiHealth
        timeSinceLastSuccess == t - h.lastSuccessTime
    IN  [rl EXCEPT !.currentStrategy =
            IF rl.circuitBreaker.isOpen THEN "circuit_breaker"
            ELSE IF h.consecutive403s >= 5 THEN "stealth"
            ELSE IF h.consecutive429s >= 3 THEN "gentle"
            ELSE IF successRateBelowThreshold(h) THEN "moderate"
            ELSE IF timeSinceLastSuccess < recentSuccess /\ successRateHigh(h)
                 THEN "aggressive"
            ELSE "moderate"]

\* lines 133-203
updateApiHealth(rl, statusCode, t) ==
    LET counted == countRequest(rl, t)
        recorded == IF statusCode = "200" \/ statusCode = "null"
                    THEN recordSuccess(counted, t)
                    ELSE IF statusCode = "403" \/ statusCode = "429"
                    THEN recordFailure(counted, statusCode, t)
                    ELSE counted
    IN  adaptStrategy(checkCircuitBreaker(recorded, t), t)

\* lines 304-323; probe is Math.random() < circuitBreakerProbeChance
shouldAttemptRequest(rl, probe) ==
    IF rl.circuitBreaker.isOpen
    THEN [allowed |-> probe,
          reason |-> IF probe THEN "circuit-breaker-probe" ELSE "circuit-breaker-open"]
    ELSE IF rl.circuitBreaker.isHalfOpen
    THEN [allowed |-> TRUE, reason |-> "circuit-breaker-half-open"]
    ELSE [allowed |-> TRUE, reason |-> "healthy"]

\* the value of an object in a condition: every object is truthy
ToBoolean(object) == TRUE

NoCall == [op |-> "none", allowed |-> FALSE, reason |-> "none", upstream |-> FALSE]

\* a call of rateLimiter.updateApiHealth(statusCode)
UpdateApiHealthCall(statusCode) ==
    LET rl == updateApiHealth(LimiterState, statusCode, now)
    IN  /\ apiHealth.totalRequests < MaxOutcomes
        /\ apiHealth' = rl.apiHealth
        /\ circuitBreaker' = rl.circuitBreaker
        /\ currentStrategy' = rl.currentStrategy
        /\ emitted' = rl.emitted
        /\ lastCall' = [NoCall EXCEPT !.op = "updateApiHealth"]
        /\ successRun' = IF circuitBreaker.isHalfOpen /\ statusCode \in {"200", "null"}
                         THEN successRun + 1 ELSE 0
        /\ UNCHANGED fetches
        /\ UNCHANGED <<dedupVars, queueVars, cacheVars>>

\* briar-bot.js lines 596-609 and on to the axios call: a top-level getPopularBuilds
\* (retryCount = 0) up to the point where the request is sent upstream or given up
getPopularBuilds(probe) ==
    LET attempt == shouldAttemptRequest(LimiterState, probe)
        returnsEmpty == ~ToBoolean(attempt)
    IN  /\ lastCall' = [NoCall EXCEPT !.op = "getPopularBuilds",
                                      !.allowed = attempt.allowed, !.reason = attempt.reason,
                                      !.upstream = ~returnsEmpty]
        /\ UNCHANGED <<apiHealth, circuitBreaker, currentStrategy, emitted, successRun>>
        /\ UNCHANGED fetches
        /\ UNCHANGED <<dedupVars, queueVars, cacheVars>>

(***************************************************************************)
(* The upstream fetch (src/src/briar-bot.js, getPopularBuilds and its       *)
(* retries).  A fetch is the record [pc, retryCount, attempts, answers,     *)
(* result] of one top-level call: pc is "axios" while a request is out,     *)
(* "delay" during the backoff wait of a retry and "done" after the return;  *)
(* attempts counts the requests sent, answers collects their answers.       *)
(* An answer is the HTTP status of the response, NoResponse for a network   *)
(* error or a timeout.                                                      *)
(***************************************************************************)
maxRetries == 12
MaxFetches == 1
MaxFetchTicks == 1

NoResponse == 0
UpstreamAnswers == {200, 403, 404, 429, 500, NoResponse}

\* an upstream that blocks: every request is answered with 403 or 429, without builds
ExtraFetches == 1
BlockedFetches == circuitBreakerThreshold + ExtraFetches
BlockedAnswers == {403, 429}

\* line 831: the option axios resolves or rejects a response by
validateStatus(status) == status >= 200 /\ status < 500

\* error.response?.status, as the status code updateApiHealth is given
StatusCodeOf(status) ==
    CASE status = 200 -> "200" [] status = 403 -> "403" [] status = 404 -> "404"
      [] status = 429 -> "429" [] status = 500 -> "500" [] OTHER -> "undefined"

\* part_007 lines 60-116: the limiter after calculateDelay(retryCount, statusCode)
\* and the strategy the delay is computed for
calculateDelay(rl, retryCount, statusCode, t) ==
    [rl |-> updateApiHealth(rl, statusCode, t), strategy |-> rl.currentStrategy]

SetLimiterState(rl) ==
    /\ apiHealth' = rl.apiHealth
    /\ circuitBreaker' = rl.circuitBreaker
    /\ currentStrategy' = rl.currentStrategy
    /\ emitted' = rl.emitted

\* part_007 lines 354-378
reset(rl, t) ==
    [apiHealth |-> [consecutive403s |-> 0, consecutive429s |-> 0, totalRequests |-> 0,
                    successfulRequests |-> 0, lastSuccessTime |-> t],
     circuitBreaker |-> [isOpen |-> FALSE, isHalfOpen |-> FALSE, openedAt |-> -1,
                         failureCount |-> 0, halfOpenSuccesses |-> 0,
                         halfOpenAttempts |-> 0],
     currentStrategy |-> "moderate",
     emitted |-> Append(rl.emitted, Event("reset", -1, t, "none"))]

\* a call of rateLimiter.calculateDelay(retryCount, statusCode); getPopularBuilds
\* calls it without a status code, which makes statusCode null
CalculateDelayCall(retryCount, statusCode) ==
    LET delayed == calculateDelay(LimiterState, retryCount, statusCode, now)
    IN  /\ apiHealth.totalRequests < MaxOutcomes
        /\ SetLimiterState(delayed.rl)
        /\ lastCall' = [NoCall EXCEPT !.op = "calculateDelay", !.reason = delayed.strategy]
        /\ successRun' = IF circuitBreaker.isHalfOpen /\ statusCode \in {"200", "null"}
                         THEN successRun + 1 ELSE 0
        /\ UNCHANGED fetches
        /\ UNCHANGED <<dedupVars, queueVars, cacheVars>>

\* a call of rateLimiter.reset()
ResetCall ==
    /\ SetLimiterState(reset(LimiterState, now))
    /\ lastCall' = [NoCall EXCEPT !.op = "reset"]
    /\ successRun' = 0
    /\ UNCHANGED fetches
    /\ UNCHANGED <<dedupVars, queueVars, cacheVars>>

NewFetch == [pc |-> "axios", retryCount |-> 0, attempts |-> 1, answers |-> {},
             result |-> "pending"]

\* lines 596-831: a top-level getPopularBuilds(heroName) up to 'await axios(...)'
GetPopularBuildsStart(probe) ==
    /\ fetches' = Append(fetches,
                      IF ToBoolean(shouldAttemptRequest(LimiterState, probe))
                      THEN NewFetch
                      ELSE [NewFetch EXCEPT !.pc = "done", !.attempts = 0, !.result = "empty"])
    /\ UNCHANGED <<apiHealth, circuitBreaker, currentStrategy, emitted, lastCall, successRun>>
    /\ UNCHANGED <<dedupVars, queueVars, cacheVars>>

\* a top-level call, at any time
GetPopularBuildsCall(probe) ==
    /\ Len(fetches) < MaxFetches
    /\ GetPopularBuildsStart(probe)

\* a top-level call of a caller that makes one call after the other, each after the
\* one before has returned
GetPopularBuildsInTurn(probe) ==
    /\ Len(fetches) < BlockedFetches
    /\ \A f \in 1..Len(fetches) : fetches[f].pc = "done"
    /\ GetPopularBuildsStart(probe)

\* lines 831-897 and, on a retry, lines 596-609 of the recursive call: the request of
\* fetch f is answered with status; hasArray: the body carries a non-empty array
AxiosSettles(f, status, hasArray, probe) ==
    LET fe == fetches[f]
        statusCode == StatusCodeOf(status)
        resolved == status # NoResponse /\ validateStatus(status)
        afterSuccess == updateApiHealth(LimiterState, "200", now)
        afterError == updateApiHealth(LimiterState, statusCode, now)
        retry == /\ statusCode # "404"
                 /\ statusCode \in {"403", "429", "undefined"}
                 /\ fe.retryCount < maxRetries
        enters == ToBoolean(shouldAttemptRequest(afterError, probe))
        delayed == calculateDelay(afterError, fe.retryCount, "null", now)
        seen == [fe EXCEPT !.answers = @ \cup {status}]
    IN  /\ f \in 1..Len(fetches)
        /\ fe.pc = "axios"
        /\ IF resolved
           THEN /\ SetLimiterState(afterSuccess)
                /\ fetches' = [fetches EXCEPT ![f] =
                      [seen EXCEPT !.pc = "done",
                                   !.result = IF hasArray THEN "data" ELSE "empty"]]
           ELSE IF retry /\ enters
           THEN /\ SetLimiterState(delayed.rl)
                /\ fetches' = [fetches EXCEPT ![f] =
                      [seen EXCEPT !.pc = "delay", !.retryCount = @ + 1]]
           ELSE /\ SetLimiterState(afterError)
                /\ fetches' = [fetches EXCEPT ![f] =
                      [seen EXCEPT !.pc = "done", !.result = "empty"]]
        /\ UNCHANGED <<lastCall, successRun>>
        /\ UNCHANGED <<dedupVars, queueVars, cacheVars>>

\* lines 608-831: the backoff wait of fetch f is over, the next request is sent
RetryDelayElapsed(f) ==
    /\ f \in 1..Len(fetches)
    /\ fetches[f].pc = "delay"
    /\ fetches' = [fetches EXCEPT ![f].pc = "axios", ![f].attempts = @ + 1]
    /\ UNCHANGED <<apiHealth, circuitBreaker, currentStrategy, emitted, lastCall, successRun>>
    /\ UNCHANGED <<dedupVars, queueVars, cacheVars>>

\* the clock of the limiter specification advances
LimiterTick ==
    /\ now + LimiterTickLen <= MaxLimiterTicks * LimiterTickLen
    /\ now' = now + LimiterTickLen
    /\ UNCHANGED <<ongoingRequests, promises, calls, timers, metadata, files>>
    /\ UNCHANGED <<queueVars, limiterVars, cacheVars>>

(***************************************************************************)
(* Specifications                                                          *)
(***************************************************************************)
InitDedupVars ==
    /\ now = 0
    /\ ongoingRequests = EmptyMap
    /\ promises = <<>>
    /\ calls = <<>>
    /\ timers = {}
    /\ metadata = [heroes |-> <<>>, failedHeroes |-> <<>>]
    /\ files = EmptyMap

InitQueueVars ==
    /\ commandQueue = <<>>
    /\ processingCommands = {}
    /\ isProcessingQueue = FALSE
    /\ running = [u \in Users |-> 0]
    /\ acceptedBy = [u \in Users |-> 0]
    /\ started = <<>>
    /\ lastWaited = 0
    /\ queueTimers = 0
    /\ accepted = 0
    /\ lastReply = [user |-> "none", outcome |-> "none", position |-> 0, queuedNotice |-> FALSE]
    /\ userRateLimit = EmptyMap
    /\ allowedAt = [u \in Users |-> <<>>]
    /\ lastRateCheck = NoRateCheck

InitLimiterVars ==
    /\ apiHealth = [consecutive403s |-> 0, consecutive429s |-> 0, totalRequests |-> 0,
                    successfulRequests |-> 0, lastSuccessTime |-> 0]
    /\ circuitBreaker = [isOpen |-> FALSE, isHalfOpen |-> FALSE, openedAt |-> -1,
                         failureCount |-> 0, halfOpenSuccesses |-> 0, halfOpenAttempts |-> 0]
    /\ currentStrategy = "moderate"
    /\ emitted = <<>>
    /\ lastCall = NoCall
    /\ successRun = 0
    /\ fetches = <<>>

InitCacheVars ==
    /\ thisMaxCacheSize = maxCacheSize
    /\ pendingWrites = {}
    /\ lastCacheCall = NoCacheCall

InitDedup ==
    /\ InitDedupVars
    /\ InitQueueVars
    /\ InitLimiterVars
    /\ InitCacheVars
    /\ maxCmds = [u \in Users |-> 0]

\* two users with a command each and a third who keeps sending
InitQueue ==
    /\ InitDedupVars
    /\ InitQueueVars
    /\ InitLimiterVars
    /\ InitCacheVars
    /\ maxCmds = [u \in Users |-> IF u = "u3" THEN MaxFloodCmds ELSE MaxLightCmds]

InitFairQueue ==
    /\ InitDedupVars
    /\ InitQueueVars
    /\ InitLimiterVars
    /\ InitCacheVars
    /\ maxCmds = [u \in Users |-> MaxFairCmds]

NextDedup ==
    \/ \E h \in HeroNames : getHeroWithDeduplication(h)
    \/ \E p \in 1..MaxCalls, found \in BOOLEAN : AnalyzeDone(p, found)
    \/ \E p \in 1..MaxCalls, rendered \in BOOLEAN, writeOk \in BOOLEAN :
          RenderDone(p, rendered, writeOk)
    \/ \E t \in timers : TimeoutFire(t)
    \/ cleanupExpiredRequests
    \/ Tick

\* Tick, for computations that all settle in less than REQUEST_TIMEOUT
TickTimely ==
    /\ \A p \in 1..Len(promises) :
          promises[p].pc # "settled" => (now + TickLen) - promises[p].startTime < REQUEST_TIMEOUT
    /\ Tick

NextDedupTimely ==
    \/ \E h \in HeroNames : getHeroWithDeduplication(h)
    \/ \E p \in 1..MaxCalls, found \in BOOLEAN : AnalyzeDone(p, found)
    \/ \E p \in 1..MaxCalls, rendered \in BOOLEAN, writeOk \in BOOLEAN :
          RenderDone(p, rendered, writeOk)
    \/ \E t \in timers : TimeoutFire(t)
    \/ cleanupExpiredRequests
    \/ TickTimely

NextQueue ==
    \/ \E u \in Users : HandleCommand(u)
    \/ ProcessQueueTimer
    \/ \E u \in Users : ProcessCommandFinish(u)

SpecDedup == InitDedup /\ [][NextDedup]_vars

SpecDedupTimely == InitDedup /\ [][NextDedupTimely]_vars

SpecQueue == InitQueue /\ [][NextQueue]_vars

FairSpecQueue ==
    /\ InitFairQueue
    /\ [][NextQueue]_vars
    /\ WF_vars(ProcessQueueTimer)
    /\ \A u \in Users : WF_vars(ProcessCommandFinish(u))

InitLimiter ==
    /\ InitDedupVars
    /\ InitQueueVars
    /\ maxCmds = [u \in Users |-> 0]
    /\ InitLimiterVars
    /\ InitCacheVars

NextLimiter ==
    \/ \E statusCode \in StatusCodes : UpdateApiHealthCall(statusCode)
    \/ \E probe \in BOOLEAN : getPopularBuilds(probe)
    \/ LimiterTick

SpecLimiter == InitLimiter /\ [][NextLimiter]_vars

\* the calls a holder of the limiter can make, in any order
NextLimiterCalls ==
    \/ \E statusCode \in StatusCodes : UpdateApiHealthCall(statusCode)
    \/ \E retryCount \in 0..MaxRetryCount, statusCode \in StatusCodes :
          CalculateDelayCall(retryCount, statusCode)
    \/ ResetCall
    \/ LimiterTick

SpecLimiterCalls == InitLimiter /\ [][NextLimiterCalls]_vars

NextFetch ==
    \/ \E probe \in BOOLEAN : GetPopularBuildsCall(probe)
    \/ \E f \in 1..MaxFetches, status \in UpstreamAnswers, hasArray \in BOOLEAN,
          probe \in BOOLEAN : AxiosSettles(f, status, hasArray, probe)
    \/ \E f \in 1..MaxFetches : RetryDelayElapsed(f)
    \/ now < MaxFetchTicks * LimiterTickLen /\ LimiterTick

SpecFetch == InitLimiter /\ [][NextFetch]_vars

\* Fetches against the blocking upstream, made one after the other.  No fetch
\* reaches a backoff wait or a clock-dependent branch in these behaviours, so
\* the steps are the calls and the answers.  The caller keeps calling and every
\* request is answered: the steps are weakly fair.
NextBlocked ==
    \/ \E probe \in BOOLEAN : GetPopularBuildsInTurn(probe)
    \/ \E f \in 1..BlockedFetches, status \in BlockedAnswers, probe \in BOOLEAN :
          AxiosSettles(f, status, FALSE, probe)

FairSpecBlocked == InitLimiter /\ [][NextBlocked]_vars /\ WF_vars(NextBlocked)

\* the bot after start-up, no message received yet
InitRateLimit ==
    /\ InitDedupVars
    /\ InitQueueVars
    /\ maxCmds = [u \in Users |-> 0]
    /\ InitLimiterVars
    /\ InitCacheVars

NextRateLimit ==
    \/ \E user \in RateUsers : MessageCreateUnmatched(user)
    \/ PerformMemoryCleanup
    \/ RateTick

SpecRateLimit == InitRateLimit /\ [][NextRateLimit]_vars

\* a manager constructed with the option maxCacheSize: SmallCacheSize, its cache empty
InitCache ==
    /\ InitDedupVars
    /\ InitQueueVars
    /\ maxCmds = [u \in Users |-> 0]
    /\ InitLimiterVars
    /\ thisMaxCacheSize = SmallCacheSize
    /\ pendingWrites = {}
    /\ lastCacheCall = NoCacheCall

NextCache ==
    \/ \E h \in CacheHeroNames : IsCachedCall(h)
    \/ \E h \in CacheHeroNames : GetCachedHeroImageCall(h)
    \/ \E h \in CacheHeroNames : RemoveCachedHeroCall(h)
    \/ \E h \in CacheHeroNames : CacheHeroImageBegin(h)
    \/ \E w \in pendingWrites, writeOk \in BOOLEAN : CacheHeroImageResume(w, writeOk)
    \/ CacheTick

SpecCache == InitCache /\ [][NextCache]_vars

(***************************************************************************)
(* Properties                                                              *)
(***************************************************************************)
Promises == 1..Len(promises)
Calls == 1..Len(calls)
Unsettled(p) == promises[p].pc # "settled"
Outstanding(k) == { p \in Promises : promises[p].key = k /\ Unsettled(p) }
\* the value the call that started promise p has got
FirstCallerResult(p) ==
    calls[CHOOSE i \in Calls : calls[i].promise = p /\ ~calls[i].joined].result
\* this step is a call of getHeroWithDeduplication for key k
CallStep(k) ==
    /\ Len(calls') = Len(calls) + 1
    /\ normalizedHeroName(calls'[Len(calls')].hero) = k
RunningCount == running["u1"] + running["u2"] + running["u3"]
InQueue(id) == \E i \in 1..Len(commandQueue) : commandQueue[i].id = id
HasStarted(id) == \E i \in 1..Len(started) : started[i] = id

\* C1: for every normalized key at most one computation started by
\* getHeroWithDeduplication is outstanding, when every computation settles in less
\* than REQUEST_TIMEOUT (SpecDedupTimely).
C1_OneOutstandingPerKey == \A k \in Keys : Cardinality(Outstanding(k)) <= 1

\* C2: a call that finds an in-flight entry for its key starts no computation and
\* reads no cache (promises, metadata and files are unchanged by it) and waits for
\* the entry's promise; every promise has exactly one caller that started it; and a
\* joined caller of a computation that succeeded has the first caller's result.
C2_JoinRunsNothingSharesResult ==
    /\ [](\A p \in Promises :
             Cardinality({ i \in Calls : calls[i].promise = p /\ ~calls[i].joined }) = 1)
    /\ [](\A i \in Calls :
             (/\ calls[i].joined
              /\ ~Unsettled(calls[i].promise)
              /\ promises[calls[i].promise].outcome.kind = "artifact")
             => calls[i].result = FirstCallerResult(calls[i].promise))
    /\ [][\A k \in Keys :
             (CallStep(k) /\ k \in DOMAIN ongoingRequests)
             => /\ promises' = promises
                /\ metadata' = metadata
                /\ files' = files
                /\ calls'[Len(calls')].joined
                /\ calls'[Len(calls')].promise = ongoingRequests[k].promise]_vars
C2_Witness ==
    \E i \in Calls :
        /\ calls[i].joined
        /\ calls[i].result.kind = "artifact"
        /\ ~calls[i].result.fromCache
        /\ calls[i].result = FirstCallerResult(calls[i].promise)

\* C3: when the shared computation fails with an error, every caller that joined
\* it has the same outcome as the caller that started it.
C3_JoinedSeeTheError ==
    \A i \in Calls :
        (/\ calls[i].joined
         /\ ~Unsettled(calls[i].promise)
         /\ promises[calls[i].promise].outcome.kind = "error")
        => calls[i].result = FirstCallerResult(calls[i].promise)

\* C4: ongoingRequests never holds an entry whose computation has settled.
C4_NoEntryOfSettled ==
    \A k \in DOMAIN ongoingRequests : Unsettled(ongoingRequests[k].promise)

\* C5: when a computation that is at least REQUEST_TIMEOUT old (its own timer has
\* run) settles, the entry a newer request registered for its key stays as it is.
C5_LateSettleKeepsNewerEntry ==
    [][\A p \in Promises :
          (/\ Unsettled(p)
           /\ promises'[p].pc = "settled"
           /\ now - promises[p].startTime >= REQUEST_TIMEOUT
           /\ promises[p].key \in DOMAIN ongoingRequests
           /\ ongoingRequests[promises[p].key].promise # p)
          => /\ promises[p].key \in DOMAIN ongoingRequests'
             /\ ongoingRequests'[promises[p].key] = ongoingRequests[promises[p].key]]_vars

\* C6: no entry belongs to an unsettled computation older than REQUEST_TIMEOUT, and
\* a call for the key of such a computation never joins it: with no entry for the
\* key it starts a new computation.
C6_HungEntryRemoved ==
    /\ [](\A p \in Promises :
             (Unsettled(p) /\ now - promises[p].startTime > REQUEST_TIMEOUT)
             => \A k \in DOMAIN ongoingRequests : ongoingRequests[k].promise # p)
    /\ [][\A p \in Promises :
             (/\ Unsettled(p)
              /\ now - promises[p].startTime > REQUEST_TIMEOUT
              /\ CallStep(promises[p].key))
             => /\ calls'[Len(calls')].promise # p
                /\ promises[p].key \notin DOMAIN ongoingRequests
                   => /\ Len(promises') = Len(promises) + 1
                      /\ calls'[Len(calls')].promise = Len(promises')
                      /\ ~calls'[Len(calls')].joined]_vars
C6_Witness ==
    \E p \in Promises : \E i \in Calls :
        /\ Unsettled(p)
        /\ now - promises[p].startTime > REQUEST_TIMEOUT
        /\ calls[i].promise > p
        /\ ~calls[i].joined
        /\ promises[calls[i].promise].key = promises[p].key
        /\ promises[calls[i].promise].startTime - promises[p].startTime >= REQUEST_TIMEOUT

\* C7: at most MAX_CONCURRENT_COMMANDS commands are inside processCommand at once.
C7_AtMostMaxConcurrent == RunningCount <= MAX_CONCURRENT_COMMANDS

\* C8: the queue never holds more than QUEUE_MAX_SIZE commands, and a handler that
\* calls addToQueue on a full queue answers queue_full (position -1) and leaves the
\* queue, the processing set and the running commands as they were.
C8_Backpressure ==
    /\ [](Len(commandQueue) <= QUEUE_MAX_SIZE)
    /\ [][(/\ Len(commandQueue) >= QUEUE_MAX_SIZE
           /\ (lastReply' # lastReply \/ accepted' # accepted)
           /\ lastReply'.user \notin processingCommands)
          => /\ lastReply'.outcome = "queue_full"
             /\ lastReply'.position = -1
             /\ commandQueue' = commandQueue
             /\ processingCommands' = processingCommands
             /\ running' = running
             /\ started' = started
             /\ accepted' = accepted]_vars
C8_Witness == lastReply.outcome = "queue_full" /\ Len(commandQueue) = QUEUE_MAX_SIZE

\* C9: under FairSpecQueue (timers run, commands being processed finish) every
\* command in the queue eventually begins processing.
C9_AcceptedEventuallyStarts ==
    \A id \in 1..(Cardinality(Users) * MaxFairCmds) : InQueue(id) ~> HasStarted(id)
C9_Witness == lastWaited > 0 /\ HasStarted(lastWaited)

\* C10: commands begin processing in the order of their acceptance: the i-th
\* command to start is the i-th command addToQueue accepted.
C10_StartInAcceptanceOrder == \A i \in 1..Len(started) : started[i] = i
C10_Witness ==
    /\ Len(started) >= 4
    /\ lastWaited > 2
    /\ HasStarted(lastWaited)
    /\ started[Len(started)] = accepted

(***************************************************************************)
(* Properties of the RateLimiter (SpecLimiter)                             *)
(***************************************************************************)
Closed == ~circuitBreaker.isOpen /\ ~circuitBreaker.isHalfOpen
Forbidden == {"403", "429"}
Success == {"200", "null"}

\* C11: while the breaker is closed its failure counter is below
\* circuitBreakerThreshold; a 403 or 429 recorded while closed adds one to the
\* counter and opens the breaker exactly when the counter becomes
\* circuitBreakerThreshold, emitting circuitBreakerOpen with that count; otherwise
\* the breaker stays closed and nothing is emitted.
C11_OpensAtThreshold ==
    /\ [](Closed => circuitBreaker.failureCount < circuitBreakerThreshold)
    /\ [][\A s \in Forbidden :
             (Closed /\ UpdateApiHealthCall(s))
             => /\ circuitBreaker'.failureCount = circuitBreaker.failureCount + 1
                /\ circuitBreaker'.isOpen
                   <=> circuitBreaker'.failureCount = circuitBreakerThreshold
                /\ circuitBreaker'.isOpen
                   => /\ circuitBreaker'.openedAt = now
                      /\ emitted' = <<Event("circuitBreakerOpen", circuitBreakerThreshold,
                                            now, "threshold-exceeded")>>
                /\ ~circuitBreaker'.isOpen => (Closed' /\ emitted' = <<>>)]_vars
C11_Witness ==
    /\ circuitBreaker.isOpen
    /\ apiHealth.totalRequests = circuitBreakerThreshold
    /\ apiHealth.consecutive403s + apiHealth.consecutive429s = circuitBreakerThreshold
    /\ emitted = <<Event("circuitBreakerOpen", circuitBreakerThreshold, now,
                         "threshold-exceeded")>>

\* C12: a getPopularBuilds call that shouldAttemptRequest refused because the
\* breaker is open sends nothing upstream.
C12_OpenSendsOnlyProbes ==
    (lastCall.op = "getPopularBuilds" /\ lastCall.reason = "circuit-breaker-open")
    => ~lastCall.upstream

\* C13: later than circuitBreakerResetTime after the breaker opened it is not open
\* and shouldAttemptRequest allows every attempt.
C13_NotOpenAfterResetTime ==
    \A probe \in BOOLEAN :
        (circuitBreaker.openedAt >= 0
         /\ now - circuitBreaker.openedAt > circuitBreakerResetTime)
        => /\ ~circuitBreaker.isOpen
           /\ shouldAttemptRequest(LimiterState, probe).allowed

\* C14: an outcome recorded while half-open closes the breaker exactly when it is
\* the third success in a row, no other outcome having been recorded between them.
C14_ClosesOnThreeInARow ==
    [][\A s \in StatusCodes :
          (circuitBreaker.isHalfOpen /\ UpdateApiHealthCall(s))
          => (Closed' <=> successRun' = 3)]_vars

\* C15: a 403 or 429 recorded while half-open leaves the breaker open with openedAt
\* the time of that outcome, and the breaker becomes half-open only from open and
\* later than circuitBreakerResetTime after openedAt.
C15_HalfOpenFailureReopens ==
    /\ [][\A s \in Forbidden :
             (circuitBreaker.isHalfOpen /\ UpdateApiHealthCall(s))
             => /\ circuitBreaker'.isOpen
                /\ ~circuitBreaker'.isHalfOpen
                /\ circuitBreaker'.openedAt = now]_vars
    /\ [][(~circuitBreaker.isHalfOpen /\ circuitBreaker'.isHalfOpen)
          => /\ circuitBreaker.isOpen
             /\ now - circuitBreaker.openedAt > circuitBreakerResetTime]_vars
C15_Witness ==
    /\ circuitBreaker.isOpen
    /\ emitted = <<Event("circuitBreakerOpen", circuitBreaker.failureCount,
                         circuitBreaker.openedAt, "half-open-failure")>>
    /\ now - circuitBreaker.openedAt = circuitBreakerResetTime

\* C16: a success sets consecutive403s and consecutive429s to 0; a 403 adds one to
\* consecutive403s and leaves consecutive429s, a 429 adds one to consecutive429s
\* and leaves consecutive403s, and both add exactly one to the failure counter.
C16_CountersPerOutcome ==
    [][/\ \A s \in Success :
             UpdateApiHealthCall(s)
             => (apiHealth'.consecutive403s = 0 /\ apiHealth'.consecutive429s = 0)
       /\ UpdateApiHealthCall("403")
          => /\ apiHealth'.consecutive403s = apiHealth.consecutive403s + 1
             /\ apiHealth'.consecutive429s = apiHealth.consecutive429s
             /\ circuitBreaker'.failureCount = circuitBreaker.failureCount + 1
       /\ UpdateApiHealthCall("429")
          => /\ apiHealth'.consecutive429s = apiHealth.consecutive429s + 1
             /\ apiHealth'.consecutive403s = apiHealth.consecutive403s
             /\ circuitBreaker'.failureCount = circuitBreaker.failureCount + 1]_vars
C16_Witness ==
    /\ apiHealth.successfulRequests >= 1
    /\ apiHealth.consecutive403s >= 1
    /\ apiHealth.consecutive429s >= 1
    /\ circuitBreaker.failureCount = apiHealth.consecutive403s + apiHealth.consecutive429s

\* the strategy the priority list gives for the current state
PriorityStrategy ==
    IF circuitBreaker.isOpen THEN "circuit_breaker"
    ELSE IF apiHealth.consecutive403s >= 5 THEN "stealth"
    ELSE IF apiHealth.consecutive429s >= 3 THEN "gentle"
    ELSE IF 10 * apiHealth.successfulRequests < apiHealth.totalRequests THEN "moderate"
    ELSE IF /\ now - apiHealth.lastSuccessTime < 30
            /\ 100 * apiHealth.successfulRequests > 80 * apiHealth.totalRequests
         THEN "aggressive"
    ELSE "moderate"

\* C17: after every updateApiHealth call the active strategy is the one the
\* priority list gives for the resulting state.
C17_StrategyByPriority ==
    [][(\E s \in StatusCodes : UpdateApiHealthCall(s))
       => currentStrategy' = PriorityStrategy']_vars
C17_Witness ==
    /\ currentStrategy = "stealth"
    /\ apiHealth.consecutive429s >= 3
    /\ lastCall.op = "updateApiHealth"

(***************************************************************************)
(* Properties of the persistent cache                                      *)
(***************************************************************************)
\* metadata holds an entry, with its file and not older than the TTL, for a name
\* that normalizes to k
FreshEntryFor(k) ==
    \E i \in 1..Len(metadata.heroes) :
        /\ normalizedHeroName(metadata.heroes[i].hero) = k
        /\ metadata.heroes[i].filename \in DOMAIN files
        /\ now - metadata.heroes[i].lastUpdated <= defaultTTL

\* C19: a request for a name whose normalized form has a fresh cache entry (cached
\* under any spelling of that name) and no in-flight entry is served from the cache:
\* it returns the cached artifact and its computation goes no further.
C19_NormalizedNameHitsCache ==
    [][\A k \in Keys :
          (CallStep(k) /\ k \notin DOMAIN ongoingRequests /\ FreshEntryFor(k))
          => /\ calls'[Len(calls')].result.kind = "artifact"
             /\ calls'[Len(calls')].result.fromCache
             /\ promises'[Len(promises')].pc = "settled"]_vars

\* C18: the number of metadata entries is at most maxCacheSize, also while
\* cacheHeroImage calls are suspended between the capacity check and the write.
C18_EntriesAtMostMax == Len(metadata.heroes) <= thisMaxCacheSize

\* C20: isCached(k) answers true exactly when metadata has an entry for k, the file
\* of that entry exists and the entry is not older than the TTL.
C20_IsCachedIff ==
    [][\A k \in CacheHeroNames :
          IsCachedCall(k)
          => (lastCacheCall'.result
              <=> \E i \in 1..Len(metadata.heroes) :
                     /\ metadata.heroes[i].hero = k
                     /\ metadata.heroes[i].filename \in DOMAIN files
                     /\ now - metadata.heroes[i].lastUpdated <= defaultTTL)]_vars
C20_Witness ==
    /\ lastCacheCall.op = "isCached"
    /\ lastCacheCall.result
    /\ \E i \in 1..Len(metadata.heroes) :
          /\ metadata.heroes[i].hero = lastCacheCall.hero
          /\ now - metadata.heroes[i].lastUpdated = defaultTTL

\* k has a metadata entry older than the TTL
ExpiredEntryFor(k) ==
    \E i \in 1..Len(metadata.heroes) :
        /\ metadata.heroes[i].hero = k
        /\ now - metadata.heroes[i].lastUpdated > defaultTTL

\* C21: when isCached or getCachedHeroImage is called for a name whose entry is
\* older than the TTL, the answer is "not cached" (no artifact is returned) and
\* afterwards metadata has no entry for the name and the file of the entry is gone.
C21_ExpiredEntryRemoved ==
    [][\A k \in CacheHeroNames :
          ((IsCachedCall(k) \/ GetCachedHeroImageCall(k)) /\ ExpiredEntryFor(k))
          => /\ ~lastCacheCall'.result
             /\ lastCacheCall'.image = 0
             /\ HeroIndex(metadata'.heroes, k) = 0
             /\ generateFilename(k) \notin DOMAIN files']_vars

(***************************************************************************)
(* SpecEvict: a manager whose init() loaded a metadata.json with LoadedSize *)
(* - 1 to LoadedSize + 1 entries, constructed with maxCacheSize LoadedSize, *)
(* under cacheHeroImage calls.                                              *)
(***************************************************************************)
LoadedSize == 10
MaxEvictCalls == 2

\* the i-th hero name of the loaded metadata: a, b, aa, ab, ba, ...
RECURSIVE LoadedName(_)
LoadedName(i) ==
    IF i = 0 THEN <<>>
    ELSE LoadedName((i - 1) \div 2) \o <<IF i % 2 = 1 THEN "a" ELSE "b">>

\* the times the loaded entries were last read at: before the start or at the start
LoadedAccessTimes == {0, 1}

\* every loaded entry was read LoadedReads times, and every loaded file holds
\* LoadedImage, an image no later call brings
LoadedReads == 2
LoadedImage == MaxEvictCalls + 1

\* the names cacheHeroImage is called with: a new one and a loaded one
EvictHeroNames == { <<"B">>, LoadedName(1) }

InitEvict ==
    /\ \E n \in (LoadedSize - 1)..(LoadedSize + 1) :
       \E la \in [1..n -> LoadedAccessTimes] :
          /\ metadata = [heroes |-> [i \in 1..n |->
                                        [hero |-> LoadedName(i),
                                         filename |-> generateFilename(LoadedName(i)),
                                         lastUpdated |-> 0, accessCount |-> LoadedReads,
                                         lastAccessed |-> la[i]]],
                         failedHeroes |-> <<>>]
          /\ files = [f \in {generateFilename(LoadedName(i)) : i \in 1..n} |-> LoadedImage]
    /\ now = 1
    /\ ongoingRequests = EmptyMap
    /\ promises = <<>>
    /\ calls = <<>>
    /\ timers = {}
    /\ InitQueueVars
    /\ maxCmds = [u \in Users |-> 0]
    /\ InitLimiterVars
    /\ thisMaxCacheSize = LoadedSize
    /\ pendingWrites = {}
    /\ lastCacheCall = NoCacheCall

NextEvict ==
    \/ \E h \in EvictHeroNames : lastCacheCall.no < MaxEvictCalls /\ CacheHeroImageBegin(h)
    \/ \E w \in pendingWrites, writeOk \in BOOLEAN : CacheHeroImageResume(w, writeOk)

SpecEvict == InitEvict /\ [][NextEvict]_vars

\* the least k with 10 * k >= n
TenthRoundedUp(n) == CHOOSE k \in 0..n : 10 * k >= n /\ \A j \in 0..n : 10 * j >= n => k <= j

\* the entries of metadata.heroes
Entries(heroes) == { heroes[i] : i \in 1..Len(heroes) }

C23_RewriteReplacesEntry ==
    [][\A w \in pendingWrites :
          (/\ w \notin pendingWrites'
           /\ HeroIndex(metadata.heroes, w.hero) # 0
           /\ CacheHeroImageResume(w, TRUE))
          => /\ Cardinality({i \in 1..Len(metadata'.heroes) :
                                metadata'.heroes[i].hero = w.hero}) = 1
             /\ metadata'.heroes[HeroIndex(metadata'.heroes, w.hero)].accessCount = 0
             /\ getCachedHeroImage(CacheState', w.hero, now').result = w.imageBuffer]_vars
\* the loaded entry of LoadedName(1), read LoadedReads times, has been rewritten in
\* place by the last call
C23_Witness ==
    /\ lastCacheCall.op = "cacheHeroImage"
    /\ lastCacheCall.hero = LoadedName(1)
    /\ pendingWrites = {}
    /\ HeroIndex(metadata.heroes, LoadedName(1)) = 1
    /\ Len(metadata.heroes) > 1
    /\ metadata.heroes[1].accessCount = 0
    /\ metadata.heroes[2].accessCount = LoadedReads
    /\ files[generateFilename(LoadedName(1))] = lastCacheCall.image

\* C24: when the write of the artifact fails inside cacheHeroImage, the call returns
\* false (it records the failure and stores no entry), and the computation still
\* resolves with the freshly generated artifact, marked as not from cache, which
\* the callers waiting for it receive.
C24_WriteFailureStillDelivers ==
    [][\A p \in 1..MaxCalls :
          RenderDone(p, TRUE, FALSE)
          => /\ ~cacheHeroImage(CacheState, promises[p].hero, p, now, FALSE).result
             /\ Len(metadata'.failedHeroes) = Len(metadata.failedHeroes) + 1
             /\ metadata'.heroes = metadata.heroes
             /\ files' = files
             /\ promises'[p].pc = "settled"
             /\ promises'[p].outcome = Artifact(p, FALSE)
             /\ \A i \in 1..Len(calls) :
                   (calls[i].promise = p /\ calls[i].result = Pending)
                   => calls'[i].result = Artifact(p, FALSE)]_vars
\* the caller that started a computation has its artifact, not from cache, and the
\* cache has the failure on record and no entry for the name
C24_Witness ==
    \E i \in 1..Len(calls) :
        /\ ~calls[i].joined
        /\ calls[i].result = Artifact(calls[i].promise, FALSE)
        /\ HeroIndex(metadata.heroes, calls[i].hero) = 0
        /\ \E j \in 1..Len(metadata.failedHeroes) :
              metadata.failedHeroes[j].hero = calls[i].hero

\* a bound on the failure list that is smaller than the number of cacheHeroImage
\* calls the specification makes
FailedLogBound == MaxCacheCalls - 1

\* C25: metadata.failedHeroes never grows beyond a fixed bound, however many
\* cacheHeroImage calls fail.
C25_FailedHeroesBounded == Len(metadata.failedHeroes) <= FailedLogBound

(***************************************************************************)
(* SpecStartup: the constructor has read a metadata.json with up to         *)
(* MaxStartupEntries entries, any of the image files may be missing, and    *)
(* init() and later the test suite call validateCacheIntegrity.             *)
(***************************************************************************)
MaxStartupEntries == 7

\* the i-th hero name of the metadata read at startup: A, a, b, aa, ...; the
\* first two share the file a.png
StartupName(i) == IF i = 1 THEN <<"A">> ELSE LoadedName(i - 1)

InitStartup ==
    /\ \E n \in 0..MaxStartupEntries :
       \E present \in SUBSET {generateFilename(StartupName(i)) : i \in 1..n} :
          /\ metadata = [heroes |-> [i \in 1..n |->
                                        [hero |-> StartupName(i),
                                         filename |-> generateFilename(StartupName(i)),
                                         lastUpdated |-> 0, accessCount |-> LoadedReads,
                                         lastAccessed |-> 0]],
                         failedHeroes |-> <<>>]
          /\ files = [f \in present |-> LoadedImage]
    /\ now = 0
    /\ ongoingRequests = EmptyMap
    /\ promises = <<>>
    /\ calls = <<>>
    /\ timers = {}
    /\ InitQueueVars
    /\ maxCmds = [u \in Users |-> 0]
    /\ InitLimiterVars
    /\ InitCacheVars

NextStartup == ValidateCacheIntegrityCall

SpecStartup == InitStartup /\ [][NextStartup]_vars

\* C26: after validateCacheIntegrity every metadata entry has an existing file; the
\* entries whose file was missing are gone, the entries whose file exists are there
\* unchanged and in their order, and no file was touched.
C26_ValidateKeepsBackedEntries ==
    [][ValidateCacheIntegrityCall
       => /\ \A e \in Entries(metadata'.heroes) : e.filename \in DOMAIN files'
          /\ \A e \in Entries(metadata.heroes) :
                IF e.filename \in DOMAIN files
                THEN e \in Entries(metadata'.heroes)
                ELSE HeroIndex(metadata'.heroes, e.hero) = 0
          /\ \A i, j \in 1..Len(metadata'.heroes) :
                i < j => HeroIndex(metadata.heroes, metadata'.heroes[i].hero)
                         < HeroIndex(metadata.heroes, metadata'.heroes[j].hero)
          /\ files' = files]_vars
\* the first call removed the two entries that shared the missing file a.png and
\* another entry, and kept an entry between them
C26_Witness ==
    /\ lastCacheCall.op = "validateCacheIntegrity"
    /\ lastCacheCall.no = 1
    /\ metadata.heroes # <<>>
    /\ HeroIndex(metadata.heroes, StartupName(1)) = 0
    /\ HeroIndex(metadata.heroes, StartupName(2)) = 0
    /\ HeroIndex(metadata.heroes, StartupName(3)) # 0
    /\ HeroIndex(metadata.heroes, StartupName(4)) = 0
    /\ HeroIndex(metadata.heroes, StartupName(5)) # 0
    /\ generateFilename(StartupName(4)) \notin DOMAIN files

\* the accessCount and lastAccessed of every entry, by name
AccessInfo(heroes) ==
    { [hero |-> heroes[i].hero, accessCount |-> heroes[i].accessCount,
       lastAccessed |-> heroes[i].lastAccessed] : i \in 1..Len(heroes) }

\* C27: a getCachedHeroImage call that returns an artifact increases the accessCount
\* of that entry by exactly 1 and sets its lastAccessed to the time of the call; a
\* call that returns null leaves the accessCount and lastAccessed of every entry
\* there is after it as they were (a miss on an expired entry removes that entry).
C27_HitCountsMissDoesNot ==
    [][\A k \in CacheHeroNames :
          GetCachedHeroImageCall(k)
          => IF lastCacheCall'.result
             THEN LET i == HeroIndex(metadata.heroes, k)
                      j == HeroIndex(metadata'.heroes, k)
                  IN  /\ i # 0 /\ j # 0
                      /\ metadata'.heroes[j].accessCount = metadata.heroes[i].accessCount + 1
                      /\ metadata'.heroes[j].lastAccessed = now
             ELSE AccessInfo(metadata'.heroes) \subseteq AccessInfo(metadata.heroes)]_vars

\* the last call read, after the clock had moved on, an entry that had not been
\* read since it was written
C27_Witness ==
    /\ lastCacheCall.op = "getCachedHeroImage"
    /\ lastCacheCall.result
    /\ \E i \in 1..Len(metadata.heroes) :
          /\ metadata.heroes[i].hero = lastCacheCall.hero
          /\ metadata.heroes[i].accessCount = 1
          /\ metadata.heroes[i].lastAccessed = now
          /\ metadata.heroes[i].lastUpdated < now

(***************************************************************************)
(* Properties of the upstream fetch                                        *)
(***************************************************************************)
\* C28: one top-level getPopularBuilds call sends at most maxRetries requests
\* upstream, whatever the answers are, and a call that has returned has returned
\* data or an empty result.
C28_AtMostMaxRetriesAttempts ==
    \A f \in 1..Len(fetches) :
        /\ fetches[f].attempts <= maxRetries
        /\ fetches[f].pc = "done" => fetches[f].result \in {"data", "empty"}

\* C29: when a fetch has ended and every one of its requests was answered with 429,
\* the consecutive-429 counter of the limiter is at least the number of requests the
\* fetch sent, and the active strategy is gentle or stealth.
C29_Only429sAreCounted ==
    [][\A f \in 1..MaxFetches, hasArray \in BOOLEAN, probe \in BOOLEAN :
          (AxiosSettles(f, 429, hasArray, probe)
             /\ fetches'[f].pc = "done" /\ fetches'[f].answers = {429})
          => /\ apiHealth'.consecutive429s >= fetches'[f].attempts
             /\ currentStrategy' \in {"gentle", "stealth"}]_vars

\* C30: a request answered with 404 ends the fetch: no further request is sent, the
\* result is empty, and the two consecutive-failure counters and the breaker
\* failure counter are what they were.
C30_NotFoundEndsFetch ==
    [][\A f \in 1..MaxFetches, hasArray \in BOOLEAN, probe \in BOOLEAN :
          AxiosSettles(f, 404, hasArray, probe)
          => /\ fetches'[f].pc = "done"
             /\ fetches'[f].attempts = fetches[f].attempts
             /\ fetches'[f].result = "empty"
             /\ apiHealth'.consecutive403s = apiHealth.consecutive403s
             /\ apiHealth'.consecutive429s = apiHealth.consecutive429s
             /\ circuitBreaker'.failureCount = circuitBreaker.failureCount]_vars

(***************************************************************************)
(* Properties settled after the fetch                                      *)
(***************************************************************************)
\* C31: when generateReportImage throws, the computation ends with the error, no
\* cache entry, cache file or failure record is created or changed, the rate
\* limiter is as it was, the key of the computation has no in-flight entry
\* afterwards and the entries of other keys are untouched; a request for a key
\* without an in-flight entry starts a new computation.
C31_RenderFailureIsLocal ==
    [][/\ \A p \in 1..MaxCalls, writeOk \in BOOLEAN :
             RenderDone(p, FALSE, writeOk)
             => /\ promises'[p].outcome = ErrorResult
                /\ metadata' = metadata
                /\ files' = files
                /\ apiHealth' = apiHealth
                /\ circuitBreaker' = circuitBreaker
                /\ currentStrategy' = currentStrategy
                /\ promises[p].key \notin DOMAIN ongoingRequests'
                /\ \A k \in DOMAIN ongoingRequests \ {promises[p].key} :
                      /\ k \in DOMAIN ongoingRequests'
                      /\ ongoingRequests'[k] = ongoingRequests[k]
       /\ \A k \in Keys :
             (CallStep(k) /\ k \notin DOMAIN ongoingRequests)
             => /\ Len(promises') = Len(promises) + 1
                /\ ~calls'[Len(calls')].joined
                /\ calls'[Len(calls')].promise = Len(promises')]_vars
\* a computation failed in rendering and a later request for its key started a new
\* computation
C31_Witness ==
    \E p, q \in 1..Len(promises) :
        /\ p < q
        /\ promises[p].outcome = ErrorResult
        /\ promises[q].key = promises[p].key
        /\ promises[q].startTime >= promises[p].startTime
        /\ metadata.heroes = <<>>


(***************************************************************************)
(* Properties of the per-user rate limit                                   *)
(***************************************************************************)
\* SECURITY.md line 18: "Rate Limiting: 5 requests per minute per user"
RequestsPerMinute == 5
MinuteSpan == 60

\* the requests of user that were allowed at a time in [from, from + span)
AllowedWithin(user, from, span) ==
    { i \in 1..Len(allowedAt[user]) :
          allowedAt[user][i].at >= from /\ allowedAt[user][i].at < from + span }

\* C32: in any span of one minute, at most 5 requests of one user pass the
\* rate limit.
C32_AtMostFivePerMinute ==
    \A u \in RateUsers : \A i \in 1..Len(allowedAt[u]) :
        Cardinality(AllowedWithin(u, allowedAt[u][i].at, MinuteSpan)) <= RequestsPerMinute

\* the requests of user allowed from the start of a window to its end, both included
AllowedInWindow(user, windowStart) ==
    { i \in 1..Len(allowedAt[user]) :
          /\ allowedAt[user][i].at >= windowStart
          /\ allowedAt[user][i].at <= windowStart + RATE_LIMIT_WINDOW }

\* C33: of the requests of one user, at most RATE_LIMIT_REQUESTS are allowed within
\* the RATE_LIMIT_WINDOW seconds that follow the first request of a window, and a
\* refused request leaves the user's count and window start as they were.
C33_ThreePerWindow ==
    [][/\ \A u \in RateUsers : \A i \in 1..Len(allowedAt'[u]) :
              Cardinality({ j \in 1..Len(allowedAt'[u]) :
                              /\ allowedAt'[u][j].at >= allowedAt'[u][i].windowStart
                              /\ allowedAt'[u][j].at <= allowedAt'[u][i].windowStart
                                                          + RATE_LIMIT_WINDOW })
                  <= RATE_LIMIT_REQUESTS
       /\ \A u \in RateUsers :
              (MessageCreateUnmatched(u) /\ ~lastRateCheck'.allowed)
              => /\ userRateLimit' = userRateLimit
                 /\ allowedAt' = allowedAt]_vars

\* a request of a user is refused after three of that user's requests were allowed
\* in the window, the last of them at the very end of the window
C33_Witness ==
    /\ lastRateCheck.user \in RateUsers
    /\ ~lastRateCheck.allowed
    /\ lastRateCheck.no > 0
    /\ LET u == lastRateCheck.user
       IN  /\ userRateLimit[u].count = RATE_LIMIT_REQUESTS
           /\ Cardinality(AllowedInWindow(u, userRateLimit[u].lastReset)) = RATE_LIMIT_REQUESTS
           /\ \E i \in 1..Len(allowedAt[u]) :
                  allowedAt[u][i].at = userRateLimit[u].lastReset + RATE_LIMIT_WINDOW
           /\ now = userRateLimit[u].lastReset + RATE_LIMIT_WINDOW

(***************************************************************************)
(* Properties of the queue notices                                         *)
(***************************************************************************)
\* C34: the handler sends the 'queued' notice for an accepted command exactly when
\* the command has not been handed to processCommand by the time addToQueue returns.
C34_QueuedNoticeIffWaiting ==
    [][\A u \in Users :
          (HandleCommand(u) /\ lastReply'.outcome = "accepted")
          => (lastReply'.queuedNotice <=> ~\E i \in 1..Len(started') : started'[i] = accepted')]_vars

\* C35: at no time are two commands of the same user being processed.
C35_OneCommandPerUserProcessed == \A u \in Users : running[u] <= 1

(***************************************************************************)
(* Properties of the timeout timers                                        *)
(***************************************************************************)
\* C36: when a timeout callback removes an in-flight entry, the entry itself is at
\* least REQUEST_TIMEOUT old: the timer set by an earlier request for the key never
\* removes the entry of a younger request.
C36_TimerRemovesOnlyOldEntries ==
    [][\A t \in timers :
          (/\ t.key \in DOMAIN ongoingRequests
           /\ TimeoutFire(t)
           /\ t.key \notin DOMAIN ongoingRequests')
          => now - ongoingRequests[t.key].startTime >= REQUEST_TIMEOUT]_vars

(***************************************************************************)
(* Properties of the cache keys                                            *)
(***************************************************************************)
\* what getCachedHeroImage(heroName) would return in this cache state at time t
StoredFor(cs, heroName, t) == getCachedHeroImage(cs, heroName, t).result

\* C37: a removeCachedHero call or the write of a cacheHeroImage call for one name
\* leaves what getCachedHeroImage returns for every other cached name as it was.
C37_OtherKeysUntouched ==
    [][\A k \in CacheHeroNames :
          StoredFor(CacheState, k, now) # 0
          => /\ \A h \in CacheHeroNames \ {k} :
                   RemoveCachedHeroCall(h)
                   => StoredFor(CacheState', k, now) = StoredFor(CacheState, k, now)
             /\ \A w \in pendingWrites, writeOk \in BOOLEAN :
                   (w.hero # k /\ CacheHeroImageResume(w, writeOk))
                   => StoredFor(CacheState', k, now) = StoredFor(CacheState, k, now)]_vars

(***************************************************************************)
(* Properties of the limiter's calls                                       *)
(***************************************************************************)
\* C38: a call of calculateDelay leaves totalRequests, successfulRequests, both
\* consecutive-failure counters, the breaker's failure counter, its half-open
\* success count and its state as they were.
C38_CalculateDelayRecordsNothing ==
    [][\A retryCount \in 0..MaxRetryCount, statusCode \in StatusCodes :
          CalculateDelayCall(retryCount, statusCode)
          => /\ apiHealth'.totalRequests = apiHealth.totalRequests
             /\ apiHealth'.successfulRequests = apiHealth.successfulRequests
             /\ apiHealth'.consecutive403s = apiHealth.consecutive403s
             /\ apiHealth'.consecutive429s = apiHealth.consecutive429s
             /\ circuitBreaker'.failureCount = circuitBreaker.failureCount
             /\ circuitBreaker'.halfOpenSuccesses = circuitBreaker.halfOpenSuccesses
             /\ circuitBreaker'.isOpen = circuitBreaker.isOpen
             /\ circuitBreaker'.isHalfOpen = circuitBreaker.isHalfOpen]_vars

\* C40: the breaker is never open and half-open at once, whatever updateApiHealth,
\* calculateDelay and reset calls were made.
C40_NeverOpenAndHalfOpen == ~(circuitBreaker.isOpen /\ circuitBreaker.isHalfOpen)

\* a calculateDelay call took the breaker from open to half-open
C40_Witness ==
    /\ circuitBreaker.isHalfOpen
    /\ ~circuitBreaker.isOpen
    /\ lastCall.op = "calculateDelay"
    /\ \E i \in 1..Len(emitted) : emitted[i].event = "circuitBreakerHalfOpen"

====
